---------------------------- MODULE Spec2Model ----------------------------
(***************************************************************************)
(* A model of the storage core of conflux-rust:                            *)
(*   - the copy-on-write node handle CowNodeRef over the delta MPT         *)
(*     (cow_node_ref.rs), with the compact node reference (node_ref.rs)    *)
(*     and the owned node set (owned_node_set.rs);                         *)
(*   - BlockDataManager (block_data_manager.rs): blocks, headers,          *)
(*     receipts, block status, transaction addresses and the caches;       *)
(*   - the log-structured delta db KvdbLog (kvdb_log.rs);                  *)
(*   - the light client's bloom and receipt sync (blooms.rs, receipts.rs)  *)
(*     and the node bucket of the node database (bucket.rs);               *)
(*   - the request handler of the synchronisation layer                    *)
(*     (request_handler.rs).                                               *)
(* Spec is the trie write session and SpecMerkle its sessions with merkle  *)
(* computation, SpecCodec the node reference codec; SpecReceipts,          *)
(* SpecStatus, SpecTx, SpecLookup and SpecGc are the data manager called   *)
(* sequentially, SpecConc two threads inside the receipts operations,      *)
(* SpecKvdb threads on one KvdbLog.  SpecOwned is the owned node set by    *)
(* itself, SpecMerge cow_merge_path on every parent and only child,        *)
(* SpecLight the light sync handlers and SpecBucket the node bucket.       *)
(* SpecTxConc is threads inside the transaction address operations,        *)
(* SpecLocks the locks the data manager's calls take, SpecRequests the     *)
(* request handler with its timeout call interleaved with the other calls. *)
(***************************************************************************)
EXTENDS Integers, Sequences, FiniteSets, TLC

(***************************************************************************)
(* Bounds of the model.                                                    *)
(***************************************************************************)
MaxSlots == 3
MaxRow == 3
MaxValue == 1
MaxChildren == 2
MaxPathLen == 1
MaxDepth == 1

Slots == 0 .. (MaxSlots - 1)
DbKeys == 0 .. (MaxRow - 1)
Values == 1 .. MaxValue
ChildIdx == 0 .. (MaxChildren - 1)
\* Option::None among numbers
None == 0 - 1

(***************************************************************************)
(* node_ref.rs: the 64-bit compact node reference.  A u32 is the record    *)
(* [t, l] of its top bit and its low 31 bits, a u64 the record             *)
(* [msb, hi31, lomsb, lo31]; both xor masks of the code are a bit          *)
(* complement of some of these fields, which the operators below compute.  *)
(***************************************************************************)
M31 == 2147483647

U32(n) == [t |-> 0, l |-> n]

U32_MAX == [t |-> 1, l |-> M31]

NULL_NODE == [msb |-> 0, hi31 |-> 0, lomsb |-> 0, lo31 |-> 0]

XorDirtySlotLimit(w) ==
    [msb |-> w.msb, hi31 |-> M31 - w.hi31,
     lomsb |-> 1 - w.lomsb, lo31 |-> M31 - w.lo31]

XorPersistentKeyBit(w) ==
    [msb |-> 1 - w.msb, hi31 |-> w.hi31, lomsb |-> w.lomsb, lo31 |-> w.lo31]

is_committed(w) == w.msb = 1

is_dirty(w) == ~is_committed(w)

\* Option<u32>::None among u32 records
WNone == [t |-> -1, l |-> -1]

from_maybe_u32(x) == IF x = WNone THEN U32_MAX ELSE x

to_maybe_u32(x) == IF x = U32_MAX THEN WNone ELSE x

\* impl From<NodeRefDeltaMpt> for NodeRefDeltaMptCompact, on u32 records
CompactFromWide(node) ==
    IF node.kind = "Committed"
    THEN XorPersistentKeyBit([msb |-> node.db_key.t, hi31 |-> node.db_key.l,
                              lomsb |-> 0, lo31 |-> 0])
    ELSE LET o == from_maybe_u32(node.original_db_key)
         IN  XorDirtySlotLimit([msb |-> node.index.t, hi31 |-> node.index.l,
                                lomsb |-> o.t, lo31 |-> o.l])

\* impl From<NodeRefDeltaMptCompact> for NodeRefDeltaMpt, on u32 records
WideFromCompact(x) ==
    IF is_dirty(x)
    THEN LET y == XorDirtySlotLimit(x)
         IN  [kind |-> "Dirty",
              index |-> [t |-> y.msb, l |-> y.hi31],
              original_db_key |-> to_maybe_u32([t |-> y.lomsb, l |-> y.lo31])]
    ELSE LET y == XorPersistentKeyBit(x)
         IN  [kind |-> "Committed", db_key |-> [t |-> y.msb, l |-> y.hi31]]

\* The node references of the trie model carry numbers below 2^31.
Committed(k) == [kind |-> "Committed", db_key |-> k]

Dirty(i, o) == [kind |-> "Dirty", index |-> i, original_db_key |-> o]

Widen(r) ==
    IF r.kind = "Committed"
    THEN [kind |-> "Committed", db_key |-> U32(r.db_key)]
    ELSE [kind |-> "Dirty", index |-> U32(r.index),
          original_db_key |-> IF r.original_db_key = None THEN WNone
                              ELSE U32(r.original_db_key)]

Narrow(r) ==
    IF r.kind = "Committed"
    THEN Committed(r.db_key.l)
    ELSE Dirty(r.index.l,
               IF r.original_db_key = WNone THEN None ELSE r.original_db_key.l)

\* NodeRefDeltaMpt -> NodeRefDeltaMptCompact (`.into()` in into_child)
ToCompact(r) == CompactFromWide(Widen(r))

\* Option<NodeRefDeltaMpt>::None among node references
NoRef == [kind |-> "None"]

\* MaybeNodeRefDeltaMptCompact -> Option<NodeRefDeltaMpt>
FromCompact(w) == IF w = NULL_NODE THEN NoRef ELSE Narrow(WideFromCompact(w))

\* Encodable: only the high 32 bits go to the wire / the db row.
rlp_append(w) == [t |-> w.msb, l |-> w.hi31]

\* Decodable: the low 32 bits are zero.
decode(val) == [msb |-> val.t, hi31 |-> val.l, lomsb |-> 0, lo31 |-> 0]

original_db_key(r) == IF r.kind = "Committed" THEN None ELSE r.original_db_key

(***************************************************************************)
(* owned_node_set.rs: dirty is a map slot -> Option<db key>, committed a   *)
(* set of db keys.                                                         *)
(***************************************************************************)
EmptyOwnedNodeSet == [dirty |-> << >>, committed |-> {}]

MapPut(f, k, v) == [x \in (DOMAIN f) \cup {k} |-> IF x = k THEN v ELSE f[x]]

MapDel(f, k) == [x \in (DOMAIN f) \ {k} |-> f[x]]

OwnedInsert(set, val) ==
    IF val.kind = "Committed"
    THEN [set EXCEPT !.committed = @ \cup {val.db_key}]
    ELSE [set EXCEPT !.dirty = MapPut(@, val.index, val.original_db_key)]

\* a remove that drops the number of the reference from both collections
OwnedRemoveByNumber(set, val) ==
    IF val.kind = "Committed"
    THEN [committed |-> set.committed \ {val.db_key},
          dirty |-> [x \in (DOMAIN set.dirty) \ {val.db_key} |->
                        set.dirty[x]]]
    ELSE [committed |-> set.committed \ {val.index},
          dirty |-> [x \in (DOMAIN set.dirty) \ {val.index} |->
                        set.dirty[x]]]

OwnedRemove(set, val) ==
    IF val.kind = "Committed"
    THEN [set EXCEPT !.committed = @ \ {val.db_key}]
    ELSE [set EXCEPT !.dirty = MapDel(@, val.index)]

OwnedContains(set, val) ==
    IF val.kind = "Committed"
    THEN val.db_key \in set.committed
    ELSE val.index \in DOMAIN set.dirty

\* the bool of insert: BTreeSet::insert, BTreeMap::insert(..).is_none()
OwnedInsertResult(set, val) ==
    IF val.kind = "Committed"
    THEN val.db_key \notin set.committed
    ELSE val.index \notin DOMAIN set.dirty

\* the bool of remove: BTreeSet::remove, BTreeMap::remove(..).is_some()
OwnedRemoveResult(set, val) ==
    IF val.kind = "Committed"
    THEN val.db_key \in set.committed
    ELSE val.index \in DOMAIN set.dirty

\* the elements of a finite set of numbers in ascending order (the order
\* in which a BTreeMap or BTreeSet iterates)
RECURSIVE Ascending(_)
Ascending(S) ==
    IF S = {} THEN << >>
    ELSE LET m == CHOOSE x \in S : \A y \in S : x <= y
         IN  << m >> \o Ascending(S \ {m})

\* OwnedNodeSet::iter collected: Iter::next drains dirty_iter, then
\* committed_iter
OwnedIter(set) ==
    [i \in 1 .. Cardinality(DOMAIN set.dirty) |->
        [kind |-> "Dirty", index |-> Ascending(DOMAIN set.dirty)[i],
         original_db_key |-> set.dirty[Ascending(DOMAIN set.dirty)[i]]]]
    \o [i \in 1 .. Cardinality(set.committed) |->
           [kind |-> "Committed", db_key |-> Ascending(set.committed)[i]]]

(***************************************************************************)
(* The state.                                                              *)
(***************************************************************************)
VARIABLES
    slab,                \* node memory manager: slot -> trie node or Vacant
    node_ref_map,        \* cache manager: db key -> slot of the cached node
    owned_node_set,      \* the write session's OwnedNodeSet
    children_merkle_map, \* original db key -> children merkle table
    root,                \* the session's root node reference
    committed_root,      \* the root of the last committed state
    db_delta_trie,       \* column DELTA_TRIE: row number -> encoded node
    db_children_merkles, \* column CHILDREN_MERKLES: row number -> table
    row_number,          \* AtomicCommit.row_number
    txn,                 \* the open commit transaction, a sequence of puts
    phase,               \* "write" | "computed" | "committing" | "panicked"
    put_log,             \* every put to DELTA_TRIE so far, in order
    snapshot,            \* db key -> the node as it was when committed
    last_op              \* the operation that produced this state

trieVars == << slab, node_ref_map, owned_node_set, children_merkle_map, root,
               committed_root, db_delta_trie, db_children_merkles, row_number,
               txn, phase, put_log, snapshot, last_op >>

VARIABLES
    block_receipts,      \* block hash -> BlockReceiptsInfo.info_with_epoch
    col_block_receipts,  \* column BLOCK_RECEIPTS: block hash -> encoded row
    blocks,              \* the block hashes held in the in-memory block map
    col_blocks,          \* column BLOCKS: key -> header, body or status byte
    invalid_block_set,   \* the in-memory set of invalid block hashes
    bdm_call,            \* the last data manager call and what it returned
    persisted,           \* block hash -> the epochs inserted persistently
    invalidated,         \* the block hashes invalidate_block has completed for
    threads,             \* thread -> its position in a receipts operation
    receipts_lock        \* the thread holding the block_receipts write lock

bdmVars == << block_receipts, col_block_receipts, blocks, col_blocks,
              invalid_block_set, bdm_call, persisted, invalidated,
              threads, receipts_lock >>

VARIABLES
    block_headers,            \* the hashes held in the in-memory header map
    compact_blocks,           \* the hashes held in the compact block map
    transaction_pubkey_cache, \* the tx hashes held in the pubkey cache
    transaction_addresses,    \* tx hash -> TransactionAddress, in memory
    block_receipts_root,      \* the hashes that have a receipts root
    col_tx_address,           \* column TX_ADDRESS: tx hash -> address
    cache_man,                \* the cache manager's ids, least recent first
    config                    \* DataManagerConfiguration

indexVars == << block_headers, compact_blocks, transaction_pubkey_cache,
                transaction_addresses, block_receipts_root, col_tx_address,
                cache_man, config >>

\* the log-structured delta db (kvdb_log.rs)
VARIABLES
    committing,          \* KvdbLog.committing
    engine,              \* the rows of the log, each the thread that put it
                         \* and the key it was put under
    kvdb_txn             \* thread -> its position in start_transaction_dyn
                         \*           and its KvdbLogTxn while it holds one

kvdbVars == << committing, engine, kvdb_txn >>

\* a node reference on its way through the compact form and the wire
VARIABLES
    codec                \* the reference, its compact word, the wire value,
                         \* the reference converted back, and the stage

\* the cap on the row numbers of a run
VARIABLES
    row_limit            \* the row number at which get_next fails

\* the components exercised on their own: the OwnedNodeSet under a sequence
\* of calls (the set itself is owned_node_set)
VARIABLES
    owned_call           \* the last call on the set, its result, and the
                         \* identities a mathematical set would hold

\* light sync (light_protocol/handler/sync): Blooms and Receipts are each
\* [verified, in_flight], the verified cache epoch -> item and the epochs
\* the sync manager has requests in flight for
VARIABLES
    light_blooms,        \* Blooms
    light_receipts,      \* Receipts
    witnesses,           \* Witnesses: epoch -> the trusted root hashes
    light_call           \* the last receive: its batch and its result

lightVars == << light_blooms, light_receipts, witnesses, light_call >>

\* a NodeBucket of the node table (network/src/ip/bucket.rs)
VARIABLES
    trusted_nodes,       \* NodeBucket.trusted_nodes
    untrusted_nodes,     \* NodeBucket.untrusted_nodes
    bucket_call          \* the last call on the bucket and its result

bucketVars == << trusted_nodes, untrusted_nodes, bucket_call >>

\* the transaction addresses under concurrent threads (their positions are
\* in threads)
VARIABLES
    tx_lock,             \* the thread holding the transaction_addresses
                         \* lock (write or upgradable read)
    tx_done              \* tx hash -> the address of the last completed
                         \* insert_transaction_address_to_kv

txConcVars == << tx_lock, tx_done >>

\* the locks of the data manager
VARIABLES
    locks,               \* lock -> the threads holding it as writer, as
                         \* upgradable reader and as readers
    lock_threads         \* thread -> the call it is in and the lock steps
                         \* the call has still to take

lockVars == << locks, lock_threads >>

\* the request handler of the synchronisation layer
VARIABLES
    peers,               \* peer id -> its RequestContainer
    requests_queue,      \* the TimedSyncRequests in the heap
    removed,             \* the requests whose TimedSyncRequests has its
                         \* removed flag set
    now,                 \* Instant::now()
    timeout_call,        \* the position of the get_timeout_requests call:
                         \* the popped entries it has still to match and
                         \* the requests it collected
    requests,            \* ghost: the requests handed to send_request, with
                         \* what became of each
    request_call         \* ghost: the last call on the handler

requestVars ==
    << peers, requests_queue, removed, now, timeout_call, requests,
       request_call >>

unitVars ==
    << owned_call, lightVars, bucketVars, txConcVars, lockVars,
       requestVars >>

extVars == << indexVars, kvdbVars, codec, row_limit, unitVars >>

\* the RwLocks of the six cache maps and of the invalid block set, and the
\* mutex of the cache manager
CacheLocks == << "block_headers", "blocks", "compact_blocks",
                "block_receipts", "transaction_addresses",
                "transaction_pubkey_cache" >>

LockNames ==
    {CacheLocks[i] : i \in DOMAIN CacheLocks}
    \cup {"invalid_block_set", "cache_man"}

\* the threads that call the data manager at the same time
MaxLockThreads == 3
LockThreads == 1 .. MaxLockThreads

\* no call was made on the components
UnitIdle ==
    /\ owned_call = [op |-> "none", val |-> [kind |-> "None"],
                     ret |-> FALSE, members |-> {}]
    /\ light_blooms = [verified |-> << >>, in_flight |-> {}]
    /\ light_receipts = [verified |-> << >>, in_flight |-> {}]
    /\ witnesses = << >>
    /\ light_call = [op |-> "none", batch |-> << >>, ret |-> "Ok"]
    /\ trusted_nodes = {}
    /\ untrusted_nodes = {}
    /\ bucket_call = [op |-> "none", id |-> 0 - 1, trusted |-> FALSE,
                      ret |-> 0 - 1]
    /\ tx_lock = {}
    /\ tx_done = << >>
    /\ locks = [l \in LockNames |->
                   [writer |-> {}, upgradable |-> {}, readers |-> {}]]
    /\ lock_threads = [t \in LockThreads |->
                          [op |-> "none", todo |-> << >>]]
    /\ peers = << >>
    /\ requests_queue = {}
    /\ removed = {}
    /\ now = 0
    /\ timeout_call = [pc |-> "idle", todo |-> << >>,
                       timeout_requests |-> << >>]
    /\ requests = << >>
    /\ request_call = [op |-> "none"]

(***************************************************************************)
(* Trie nodes.  A compressed path is a sequence of child indices (nibbles),*)
(* the children table a function on ChildIdx of compact references.        *)
(***************************************************************************)
Vacant == [vacant |-> TRUE]

NoValue == 0

MERKLE_NULL_NODE == << "null" >>

EmptyChildren == [i \in ChildIdx |-> NULL_NODE]

TrieNode(path, value, children, merkle) ==
    [compressed_path |-> path, value |-> value,
     children_table |-> children, merkle_hash |-> merkle]

get_children_count(node) ==
    Cardinality({i \in ChildIdx : node.children_table[i] # NULL_NODE})

has_value(node) == node.value # NoValue

\* TrieNode::rlp_bytes: the children are written through Encodable
rlp_bytes(node) ==
    [compressed_path |-> node.compressed_path, value |-> node.value,
     children_table |-> [i \in ChildIdx |-> rlp_append(node.children_table[i])],
     merkle_hash |-> node.merkle_hash]

\* the node read back from its row, the children through Decodable
rlp_decode(row) ==
    [compressed_path |-> row.compressed_path, value |-> row.value,
     children_table |-> [i \in ChildIdx |-> decode(row.children_table[i])],
     merkle_hash |-> row.merkle_hash]

\* TrieNode::copy_and_replace_fields(value, path, children_table); an
\* argument of NoChange stands for Rust's None (keep the field)
NoChange == [nochange |-> TRUE]

copy_and_replace_fields(node, new_value, new_path, new_children) ==
    TrieNode(IF new_path = NoChange THEN node.compressed_path ELSE new_path.v,
             IF new_value = NoChange THEN node.value ELSE new_value.v,
             IF new_children = NoChange THEN node.children_table
             ELSE new_children.v,
             MERKLE_NULL_NODE)

Arg(x) == [v |-> x]

(***************************************************************************)
(* Node memory manager (slab and cache).  The world W an operation works   *)
(* on is the record of the in-memory structures and the transaction;       *)
(* cache_full are the db keys the cache manager fails to register.         *)
(***************************************************************************)
World == [slab |-> slab, cache |-> node_ref_map, own |-> owned_node_set,
          cmm |-> children_merkle_map, txn |-> txn, row |-> row_number,
          delta |-> db_delta_trie, merkles |-> db_children_merkles,
          panic |-> FALSE, cache_full |-> {}]

FreeSlots(w) == {i \in Slots : w.slab[i] = Vacant}

MinOf(S) == CHOOSE x \in S : \A y \in S : x <= y

\* NodeMemoryManager::new_node: the slot the allocator hands out
new_node_slot(w) == MinOf(FreeSlots(w))

\* node_cell_with_cache_manager: Dirty short-circuits to the slab, Committed
\* goes through the cache and, on a miss, to the delta db; `bad` are the db
\* keys whose load fails.  The result is [err, node].
get_trie_node(w, ref, bad) ==
    IF ref.kind = "Dirty"
    THEN [err |-> FALSE, node |-> w.slab[ref.index]]
    ELSE IF ref.db_key \in DOMAIN w.cache
    THEN [err |-> FALSE, node |-> w.slab[w.cache[ref.db_key]]]
    ELSE IF ref.db_key \in bad \/ ref.db_key \notin DOMAIN w.delta
    THEN [err |-> TRUE, node |-> Vacant]
    ELSE [err |-> FALSE, node |-> rlp_decode(w.delta[ref.db_key])]

\* the slot a mutable borrow of the node behind `ref` writes to
NodeSlot(w, ref) ==
    IF ref.kind = "Dirty" THEN ref.index ELSE w.cache[ref.db_key]

InMemory(w, ref) ==
    IF ref.kind = "Dirty" THEN w.slab[ref.index] # Vacant
    ELSE ref.db_key \in DOMAIN w.cache

\* NodeMemoryManager::free_owned_node
free_owned_node(w, ref) ==
    IF ref.kind = "Dirty"
    THEN [w EXCEPT !.slab[ref.index] = Vacant]
    ELSE IF ref.db_key \in DOMAIN w.cache
    THEN [w EXCEPT !.slab[w.cache[ref.db_key]] = Vacant,
                   !.cache = MapDel(@, ref.db_key)]
    ELSE w

(***************************************************************************)
(* cow_node_ref.rs: the handle is [owned, node_ref].                       *)
(***************************************************************************)
\* CowNodeRef::new
CowNodeRef_new(node_ref, set) ==
    [owned |-> OwnedContains(set, node_ref), node_ref |-> node_ref]

\* CowNodeRef::take: the handle that is left behind, safe to drop
take_self(h) == [h EXCEPT !.owned = FALSE]

\* impl Drop for CowNodeRef: assert_eq!(false, self.owned)
Drop(w, h) == IF h.owned THEN [w EXCEPT !.panic = TRUE] ELSE w

\* CowNodeRef::new_uninitialized_node followed by the caller's
\* new_entry.insert(node); [err, w, h]
new_uninitialized_node(w, node) ==
    IF FreeSlots(w) = {}
    THEN [err |-> TRUE, w |-> w, h |-> [owned |-> FALSE, node_ref |-> NoRef]]
    ELSE LET node_ref == Dirty(new_node_slot(w), None)
         IN  [err |-> FALSE,
              w |-> [w EXCEPT !.own = OwnedInsert(@, node_ref),
                              !.slab[node_ref.index] = node],
              h |-> [owned |-> TRUE, node_ref |-> node_ref]]

\* a conversion that takes the slot of the cached node for the new dirty
\* reference instead of a fresh one
convert_to_owned_in_place(w, h) ==
    IF h.owned
    THEN [err |-> FALSE, w |-> w, h |-> h, copied |-> None]
    ELSE IF FreeSlots(w) = {}
    THEN [err |-> TRUE, w |-> w, h |-> h, copied |-> None]
    ELSE LET okey == IF h.node_ref.kind = "Committed" THEN h.node_ref.db_key
                     ELSE original_db_key(h.node_ref)
             node_ref == Dirty(IF InMemory(w, h.node_ref)
                               THEN NodeSlot(w, h.node_ref)
                               ELSE new_node_slot(w), okey)
         IN  [err |-> FALSE,
              w |-> [w EXCEPT !.own = OwnedInsert(@, node_ref)],
              h |-> [owned |-> TRUE, node_ref |-> node_ref],
              copied |-> node_ref.index]

\* a conversion that forgets the db key the node was committed under
convert_to_owned_forgetful(w, h) ==
    IF h.owned
    THEN [err |-> FALSE, w |-> w, h |-> h, copied |-> None]
    ELSE IF FreeSlots(w) = {}
    THEN [err |-> TRUE, w |-> w, h |-> h, copied |-> None]
    ELSE LET node_ref == Dirty(new_node_slot(w), None)
         IN  [err |-> FALSE,
              w |-> [w EXCEPT !.own = OwnedInsert(@, node_ref)],
              h |-> [owned |-> TRUE, node_ref |-> node_ref],
              copied |-> node_ref.index]

\* CowNodeRef::convert_to_owned; [err, w, h, copied], copied the new slot
\* (Some(new_entry)) or None
convert_to_owned(w, h) ==
    IF h.owned
    THEN [err |-> FALSE, w |-> w, h |-> h, copied |-> None]
    ELSE IF FreeSlots(w) = {}
    THEN [err |-> TRUE, w |-> w, h |-> h, copied |-> None]
    ELSE LET okey == IF h.node_ref.kind = "Committed" THEN h.node_ref.db_key
                     ELSE original_db_key(h.node_ref)
             node_ref == Dirty(new_node_slot(w), okey)
         IN  [err |-> FALSE,
              w |-> [w EXCEPT !.own = OwnedInsert(@, node_ref)],
              h |-> [owned |-> TRUE, node_ref |-> node_ref],
              copied |-> node_ref.index]

\* The closures of the cow_* methods: f_owned changes the node in place,
\* f_ref builds the changed copy; both give [node, out].
\*   op = [f |-> "replace_value", value], [f |-> "delete_value"],
\*        [f |-> "set_path", path], [f |-> "modify", children]
f_owned(op, node) ==
    CASE op.f = "replace_value" ->
            [node |-> [node EXCEPT !.value = op.value], out |-> node.value]
      [] op.f = "delete_value" ->
            [node |-> [node EXCEPT !.value = NoValue], out |-> node.value]
      [] op.f = "set_path" ->
            [node |-> [node EXCEPT !.compressed_path = op.path], out |-> 0]
      [] op.f = "modify" ->
            [node |-> [node EXCEPT !.children_table = op.children], out |-> 0]

f_ref(op, node) ==
    CASE op.f = "replace_value" ->
            [node |-> copy_and_replace_fields(node, Arg(op.value), NoChange,
                                              NoChange),
             out |-> node.value]
      [] op.f = "delete_value" ->
            [node |-> copy_and_replace_fields(node, Arg(NoValue), NoChange,
                                              NoChange),
             out |-> node.value]
      [] op.f = "set_path" ->
            [node |-> copy_and_replace_fields(node, NoChange, Arg(op.path),
                                              NoChange),
             out |-> 0]
      [] op.f = "modify" ->
            [node |-> [copy_and_replace_fields(node, NoChange, NoChange,
                                               NoChange)
                         EXCEPT !.children_table = op.children],
             out |-> 0]

\* CowNodeRef::cow_modify_with_operation (and cow_modify followed by the
\* caller's change of the returned node); the node behind the handle is the
\* one the caller fetched.  [err, w, h, out]
cow_modify_with_operation(w, h, op) ==
    LET Owned(c) ==
            LET slot == NodeSlot(c.w, h.node_ref)
                Done(r) == [err |-> FALSE,
                            w |-> [c.w EXCEPT !.slab[slot] = r.node],
                            h |-> c.h, out |-> r.out]
            IN  Done(f_owned(op, c.w.slab[slot]))
        Copied(c) ==
            LET Done(r) == [err |-> FALSE,
                            w |-> [c.w EXCEPT !.slab[c.copied] = r.node],
                            h |-> c.h, out |-> r.out]
            IN  Done(f_ref(op, get_trie_node(w, h.node_ref, {}).node))
        Converted(c) ==
            IF c.err THEN [err |-> TRUE, w |-> w, h |-> h, out |-> 0]
            ELSE IF c.copied = None THEN Owned(c)
            ELSE Copied(c)
    IN  Converted(convert_to_owned(w, h))

\* CowNodeRef::delete_node (consumes the handle)
delete_node(w, h) ==
    IF h.owned
    THEN LET w1 == free_owned_node(w, h.node_ref)
         IN  [w1 EXCEPT !.own = OwnedRemove(@, h.node_ref)]
    ELSE w

\* CowNodeRef::into_child (consumes the handle, which is then not owned)
into_child(h) == ToCompact(h.node_ref)

\* a delete_node that leaves the owned flag of the handle as it was
delete_node_self_kept(h) == h

\* the handle at the end of delete_node, before it goes out of scope
delete_node_self(h) == IF h.owned THEN [h EXCEPT !.owned = FALSE] ELSE h

\* the handle at the end of into_child
into_child_self(h) == IF h.owned THEN [h EXCEPT !.owned = FALSE] ELSE h

(***************************************************************************)
(* The recursive operations.  Each result carries err (the Result is Err)  *)
(* and the world w; w.panic says that a handle was dropped while owned.    *)
(* A loop over the children table is the operator with the index i.        *)
(***************************************************************************)
concat(key_prefix, i, path) == key_prefix \o << i >> \o path

RECURSIVE iterate_internal(_, _, _, _, _)
RECURSIVE iterate_children(_, _, _, _, _, _)

\* CowNodeRef::iterate_internal(&self, ..): [err, w, values]
iterate_internal(w, node, key_prefix, values, bad) ==
    iterate_children(w, node.children_table, 0, key_prefix,
                     IF has_value(node)
                     THEN Append(values, << key_prefix, node.value >>)
                     ELSE values,
                     bad)

\* the loop of iterate_internal; cow_child_node goes out of scope at the end
\* of the loop body and on each `?`
iterate_children(w, children_table, i, key_prefix, values, bad) ==
    LET Rest(r) ==
            IF r.err \/ r.w.panic THEN r
            ELSE iterate_children(r.w, children_table, i + 1, key_prefix,
                                  r.values, bad)
        Dropped(r, cow_child_node) ==
            [r EXCEPT !.w = Drop(r.w, cow_child_node)]
        Child(cow_child_node, child_node) ==
            IF child_node.err
            THEN [err |-> TRUE, w |-> Drop(w, cow_child_node),
                  values |-> values]
            ELSE Rest(Dropped(
                     iterate_internal(
                         w, child_node.node,
                         concat(key_prefix, i,
                                child_node.node.compressed_path),
                         values, bad),
                     cow_child_node))
        Handle(cow_child_node) ==
            Child(cow_child_node,
                  get_trie_node(w, cow_child_node.node_ref, bad))
    IN  IF i = MaxChildren THEN [err |-> FALSE, w |-> w, values |-> values]
        ELSE IF children_table[i] = NULL_NODE
        THEN Rest([err |-> FALSE, w |-> w, values |-> values])
        ELSE Handle(CowNodeRef_new(FromCompact(children_table[i]), w.own))

RECURSIVE delete_subtree(_, _, _, _, _, _)
RECURSIVE delete_subtree_children(_, _, _, _, _, _)

\* CowNodeRef::delete_subtree(mut self, ..): [err, w, values]
delete_subtree(w, self, node, key_prefix, values, bad) ==
    LET Freed(r) ==
            IF r.err \/ r.w.panic
            THEN \* `?`: self goes out of scope with owned still true
                 [r EXCEPT !.w = Drop(r.w, self)]
            ELSE [r EXCEPT !.w = free_owned_node(r.w, self.node_ref)]
        values1 == IF has_value(node)
                   THEN Append(values, << key_prefix, node.value >>)
                   ELSE values
    IN  IF self.owned
        THEN Freed(delete_subtree_children(w, node.children_table, 0,
                                           key_prefix, values1, bad))
        ELSE iterate_internal(w, node, key_prefix, values, bad)

\* the loop of delete_subtree
delete_subtree_children(w, children_table, i, key_prefix, values, bad) ==
    LET Rest(r) ==
            IF r.err \/ r.w.panic THEN r
            ELSE delete_subtree_children(r.w, children_table, i + 1,
                                         key_prefix, r.values, bad)
        Child(cow_child_node, child_node) ==
            IF child_node.err
            THEN [err |-> TRUE, w |-> Drop(w, cow_child_node),
                  values |-> values]
            ELSE Rest(delete_subtree(
                          w, cow_child_node, child_node.node,
                          concat(key_prefix, i,
                                 child_node.node.compressed_path),
                          values, bad))
        Handle(cow_child_node) ==
            Child(cow_child_node,
                  get_trie_node(w, cow_child_node.node_ref, bad))
    IN  IF i = MaxChildren THEN [err |-> FALSE, w |-> w, values |-> values]
        ELSE IF children_table[i] = NULL_NODE
        THEN Rest([err |-> FALSE, w |-> w, values |-> values])
        ELSE Handle(CowNodeRef_new(FromCompact(children_table[i]), w.own))

(***************************************************************************)
(* Merkle computation.  compute_merkle is the hash H(path, children        *)
(* merkles, value), modelled as the injective triple; a MaybeMerkleTable   *)
(* is [some, t].                                                           *)
(***************************************************************************)
NoTable == [some |-> FALSE, t |-> << >>]

SomeTable(t) == [some |-> TRUE, t |-> t]

compute_merkle(path, children_merkles, value) ==
    << path, children_merkles, value >>

\* NodeMemoryManager::load_children_merkles: the in-memory map first, then
\* the CHILDREN_MERKLES column, whose table is then kept in the map
load_children_merkles(w, db_key) ==
    IF db_key \in DOMAIN w.cmm
    THEN [w |-> w, merkles |-> SomeTable(w.cmm[db_key])]
    ELSE IF db_key \in DOMAIN w.merkles
    THEN [w |-> [w EXCEPT !.cmm = MapPut(@, db_key, w.merkles[db_key])],
          merkles |-> SomeTable(w.merkles[db_key])]
    ELSE [w |-> w, merkles |-> NoTable]

RECURSIVE get_or_compute_merkle(_, _, _)
RECURSIVE compute_children_merkles_loop(_, _, _, _, _)
RECURSIVE recompute_dirty_children_loop(_, _, _, _, _)

\* the loop of compute_children_merkles: [err, w, t]
compute_children_merkles_loop(w, children_table, i, merkles, bad) ==
    LET Rest(result) ==
            \* cow_child_node.into_child() comes before `result?`
            IF result.err THEN [err |-> TRUE, w |-> result.w, t |-> merkles]
            ELSE compute_children_merkles_loop(
                     result.w, children_table, i + 1,
                     [merkles EXCEPT ![i] = result.merkle], bad)
    IN  IF i = MaxChildren THEN [err |-> FALSE, w |-> w, t |-> merkles]
        ELSE IF children_table[i] = NULL_NODE
        THEN Rest([err |-> FALSE, w |-> w, merkle |-> MERKLE_NULL_NODE])
        ELSE Rest(get_or_compute_merkle(
                      w, CowNodeRef_new(FromCompact(children_table[i]), w.own),
                      bad))

\* CowNodeRef::compute_children_merkles: [err, w, merkles]
compute_children_merkles(w, self, trie_node, bad) ==
    LET Done(r) ==
            IF r.err THEN [err |-> TRUE, w |-> r.w, merkles |-> NoTable]
            ELSE [err |-> FALSE,
                  w |-> IF self.node_ref.kind = "Dirty"
                           /\ self.node_ref.original_db_key # None
                        THEN [r.w EXCEPT !.cmm =
                                  MapPut(@, self.node_ref.original_db_key,
                                         r.t)]
                        ELSE r.w,
                  merkles |-> SomeTable(r.t)]
    IN  Done(compute_children_merkles_loop(
                 w, trie_node.children_table, 0,
                 [i \in ChildIdx |-> MERKLE_NULL_NODE], bad))

\* the loop over the loaded table in get_or_compute_children_merkles
recompute_dirty_children_loop(w, children_table, i, merkles, bad) ==
    LET Rest(result) ==
            IF result.err THEN [err |-> TRUE, w |-> result.w, t |-> merkles]
            ELSE recompute_dirty_children_loop(
                     result.w, children_table, i + 1,
                     [merkles EXCEPT ![i] = result.merkle], bad)
    IN  IF i = MaxChildren THEN [err |-> FALSE, w |-> w, t |-> merkles]
        ELSE IF children_table[i] = NULL_NODE
        THEN Rest([err |-> FALSE, w |-> w, merkle |-> MERKLE_NULL_NODE])
        ELSE IF is_dirty(children_table[i])
        THEN Rest(get_or_compute_merkle(
                      w, CowNodeRef_new(FromCompact(children_table[i]), w.own),
                      bad))
        ELSE Rest([err |-> FALSE, w |-> w, merkle |-> merkles[i]])

\* CowNodeRef::get_or_compute_children_merkles: [err, w, merkles]
get_or_compute_children_merkles(w, self, trie_node, bad) ==
    LET Recomputed(r) ==
            [err |-> r.err, w |-> r.w,
             merkles |-> IF r.err THEN NoTable ELSE SomeTable(r.t)]
        Loaded(l) ==
            IF ~l.merkles.some
            THEN compute_children_merkles(l.w, self, trie_node, bad)
            ELSE Recomputed(recompute_dirty_children_loop(
                                l.w, trie_node.children_table, 0,
                                l.merkles.t, bad))
    IN  IF get_children_count(trie_node) = 0
        THEN [err |-> FALSE, w |-> w, merkles |-> NoTable]
        ELSE Loaded(IF original_db_key(self.node_ref) = None
                    THEN [w |-> w, merkles |-> NoTable]
                    ELSE load_children_merkles(
                             w, original_db_key(self.node_ref)))

\* CowNodeRef::get_or_compute_merkle with set_merkle: [err, w, merkle]
get_or_compute_merkle(w, self, bad) ==
    LET slot == NodeSlot(w, self.node_ref)
        SetMerkle(cm, path_merkle) ==
            [err |-> FALSE,
             w |-> [cm.w EXCEPT !.slab[slot].merkle_hash = path_merkle],
             merkle |-> path_merkle]
        Owned(cm) ==
            IF cm.err
            THEN [err |-> TRUE, w |-> cm.w, merkle |-> MERKLE_NULL_NODE]
            ELSE SetMerkle(cm,
                           compute_merkle(cm.w.slab[slot].compressed_path,
                                          cm.merkles, cm.w.slab[slot].value))
        Unowned(trie_node) ==
            IF trie_node.err
            THEN [err |-> TRUE, w |-> w, merkle |-> MERKLE_NULL_NODE]
            ELSE [err |-> FALSE, w |-> w,
                  merkle |-> trie_node.node.merkle_hash]
    IN  IF self.owned
        THEN Owned(get_or_compute_children_merkles(w, self, w.slab[slot],
                                                   bad))
        ELSE Unowned(get_trie_node(w, self.node_ref, bad))

(***************************************************************************)
(* Commit.  A put is [col, key, value]; the rows of both columns are keyed *)
(* by the row number.                                                      *)
(***************************************************************************)
\* RowNumber::get_next: [err, value]
get_next(row) ==
    IF row >= row_limit THEN [err |-> TRUE, value |-> row]
    ELSE [err |-> FALSE, value |-> row + 1]

\* CowNodeRef::get_precomputed_children_merkles_unchecked
get_precomputed_children_merkles_unchecked(self, cmm) ==
    IF self.node_ref.kind = "Dirty"
       /\ self.node_ref.original_db_key # None
       /\ self.node_ref.original_db_key \in DOMAIN cmm
    THEN SomeTable(cmm[self.node_ref.original_db_key])
    ELSE NoTable

\* a commit that does not descend into the children
commit_parent_only(w, slot, i) == [err |-> FALSE, w |-> w, e |-> "none"]

\* a commit that leaves the row number where it was
commit_node_no_advance(w, self, slot) ==
    LET db_key == w.row
        committed_node_ref == Committed(db_key)
        Advance(w1, next) ==
            IF next.err
            THEN [err |-> TRUE, w |-> w1, h |-> self, e |-> "row_number"]
            ELSE [err |-> FALSE, e |-> "none",
                  w |-> [w1 EXCEPT
                           !.cache = MapPut(@, db_key, slot),
                           !.own = OwnedRemove(
                                       OwnedInsert(@, committed_node_ref),
                                       self.node_ref)],
                  h |-> [self EXCEPT !.node_ref = committed_node_ref]]
    IN  Advance([w EXCEPT
                   !.txn = Append(@, [col |-> "DELTA_TRIE", key |-> db_key,
                                      value |-> rlp_bytes(w.slab[slot])])],
                get_next(w.row))

\* a commit whose put goes to the delta db at once, not only into the
\* transaction
commit_node_write_through(w, self, slot) ==
    LET db_key == w.row
        committed_node_ref == Committed(db_key)
        Advance(w1, next) ==
            IF next.err
            THEN [err |-> TRUE, w |-> w1, h |-> self, e |-> "row_number"]
            ELSE [err |-> FALSE, e |-> "none",
                  w |-> [w1 EXCEPT
                           !.row = next.value,
                           !.cache = MapPut(@, db_key, slot),
                           !.own = OwnedRemove(
                                       OwnedInsert(@, committed_node_ref),
                                       self.node_ref)],
                  h |-> [self EXCEPT !.node_ref = committed_node_ref]]
    IN  Advance([w EXCEPT
                   !.txn = Append(@, [col |-> "DELTA_TRIE", key |-> db_key,
                                      value |-> rlp_bytes(w.slab[slot])]),
                   !.delta = MapPut(@, db_key, rlp_bytes(w.slab[slot]))],
                get_next(w.row))

RECURSIVE commit_dirty_recursively(_, _)
RECURSIVE commit_dirty_recurse_into_children(_, _, _)

\* the loop of commit_dirty_recurse_into_children over the children of the
\* node in `slot`: [err, w]
commit_dirty_recurse_into_children(w, slot, i) ==
    LET Rest(c) ==
            IF c.err THEN [err |-> TRUE, w |-> c.w, e |-> c.e]
            ELSE \* *node_ref_mut = cow_child_node.into_child()
                 commit_dirty_recurse_into_children(
                     [c.w EXCEPT !.slab[slot].children_table[i] =
                                     into_child(c.h)],
                     slot, i + 1)
        Child(cow_child_node) ==
            IF cow_child_node.owned
            THEN Rest(commit_dirty_recursively(w, cow_child_node))
            ELSE commit_dirty_recurse_into_children(w, slot, i + 1)
    IN  IF i = MaxChildren THEN [err |-> FALSE, w |-> w, e |-> "none"]
        ELSE IF w.slab[slot].children_table[i] = NULL_NODE
        THEN commit_dirty_recurse_into_children(w, slot, i + 1)
        ELSE Child(CowNodeRef_new(FromCompact(w.slab[slot].children_table[i]),
                                  w.own))

\* a commit that takes the Dirty ref out of the owner set before the cache
\* manager has registered the new db key
commit_node_remove_first(w, self, slot) ==
    LET db_key == w.row
        committed_node_ref == Committed(db_key)
        Puts(merkles) ==
            << [col |-> "DELTA_TRIE", key |-> db_key,
                value |-> rlp_bytes(w.slab[slot])] >>
            \o (IF merkles.some
                THEN << [col |-> "CHILDREN_MERKLES", key |-> db_key,
                         value |-> merkles.t] >>
                ELSE << >>)
        Put(puts) ==
            [w EXCEPT !.txn = @ \o puts,
                      !.cmm = IF self.node_ref.kind = "Dirty"
                                 /\ self.node_ref.original_db_key # None
                              THEN MapDel(@, self.node_ref.original_db_key)
                              ELSE @]
        Advance(w1, next) ==
            IF next.err
            THEN [err |-> TRUE, w |-> w1, h |-> self, e |-> "row_number"]
            ELSE IF db_key \in w1.cache_full
            THEN \* insert_to_node_ref_map_and_call_cache_access failed:
                 \* the Committed ref is an extra entry of the owner set
                 [err |-> TRUE, h |-> self, e |-> "cache",
                  w |-> [w1 EXCEPT
                           !.row = next.value,
                           !.own = OwnedRemove(
                                       OwnedInsert(@, committed_node_ref),
                                       self.node_ref)]]
            ELSE [err |-> FALSE, e |-> "none",
                  w |-> [w1 EXCEPT
                           !.row = next.value,
                           \* insert_to_node_ref_map_and_call_cache_access
                           !.cache = MapPut(@, db_key, slot),
                           !.own = OwnedRemove(
                                       OwnedInsert(@, committed_node_ref),
                                       self.node_ref)],
                  h |-> [self EXCEPT !.node_ref = committed_node_ref]]
    IN  Advance(Put(Puts(get_precomputed_children_merkles_unchecked(
                             self, w.cmm))),
                get_next(w.row))

\* the part of commit_dirty_recursively after the children are committed
commit_node(w, self, slot) ==
    LET db_key == w.row
        committed_node_ref == Committed(db_key)
        Puts(merkles) ==
            << [col |-> "DELTA_TRIE", key |-> db_key,
                value |-> rlp_bytes(w.slab[slot])] >>
            \o (IF merkles.some
                THEN << [col |-> "CHILDREN_MERKLES", key |-> db_key,
                         value |-> merkles.t] >>
                ELSE << >>)
        Put(puts) ==
            [w EXCEPT !.txn = @ \o puts,
                      !.cmm = IF self.node_ref.kind = "Dirty"
                                 /\ self.node_ref.original_db_key # None
                              THEN MapDel(@, self.node_ref.original_db_key)
                              ELSE @]
        Advance(w1, next) ==
            IF next.err
            THEN [err |-> TRUE, w |-> w1, h |-> self, e |-> "row_number"]
            ELSE IF db_key \in w1.cache_full
            THEN \* insert_to_node_ref_map_and_call_cache_access failed:
                 \* the Committed ref is an extra entry of the owner set
                 [err |-> TRUE, h |-> self, e |-> "cache",
                  w |-> [w1 EXCEPT
                           !.row = next.value,
                           !.own = OwnedInsert(@, committed_node_ref)]]
            ELSE [err |-> FALSE, e |-> "none",
                  w |-> [w1 EXCEPT
                           !.row = next.value,
                           \* insert_to_node_ref_map_and_call_cache_access
                           !.cache = MapPut(@, db_key, slot),
                           !.own = OwnedRemove(
                                       OwnedInsert(@, committed_node_ref),
                                       self.node_ref)],
                  h |-> [self EXCEPT !.node_ref = committed_node_ref]]
    IN  Advance(Put(Puts(get_precomputed_children_merkles_unchecked(
                             self, w.cmm))),
                get_next(w.row))

\* CowNodeRef::commit_dirty_recursively: [err, w, h]
commit_dirty_recursively(w, self) ==
    LET slot == NodeSlot(w, self.node_ref)
        Committing(c) ==
            IF c.err THEN [err |-> TRUE, w |-> c.w, h |-> self, e |-> c.e]
            ELSE commit_node(c.w, self, slot)
    IN  IF self.owned
        THEN Committing(commit_dirty_recurse_into_children(w, slot, 0))
        ELSE [err |-> FALSE, w |-> w, h |-> self, e |-> "none"]

(***************************************************************************)
(* cow_merge_path and the cow_* methods it uses.                           *)
(***************************************************************************)
\* a prepended path without the nibble of the child index
path_prepended_no_index(node, path_prefix, child_index) ==
    path_prefix \o node.compressed_path

\* TrieNode::path_prepended
path_prepended(node, path_prefix, child_index) ==
    concat(path_prefix, child_index, node.compressed_path)

\* CowNodeRef::cow_set_compressed_path
cow_set_compressed_path(w, self, path) ==
    cow_modify_with_operation(w, self, [f |-> "set_path", path |-> path])

\* CowNodeRef::cow_replace_value_valid
cow_replace_value_valid(w, self, value) ==
    cow_modify_with_operation(w, self,
                              [f |-> "replace_value", value |-> value])

\* CowNodeRef::cow_delete_value_unchecked
cow_delete_value_unchecked(w, self) ==
    cow_modify_with_operation(w, self, [f |-> "delete_value"])

\* CowNodeRef::cow_modify, with the children table the caller then writes
cow_modify(w, self, children) ==
    cow_modify_with_operation(w, self,
                              [f |-> "modify", children |-> children])

\* CowNodeRef::cow_merge_path(self, ..): [err, w, h]; on `?` both self and
\* child_node_cow go out of scope
cow_merge_path(w, self, trie_node, child_node_ref, child_index, bad) ==
    LET path_prefix == trie_node.compressed_path
        Moved(r) ==
            IF r.err
            THEN [err |-> TRUE, w |-> Drop(Drop(r.w, r.h), self), h |-> r.h]
            ELSE [err |-> FALSE, w |-> delete_node(r.w, self), h |-> r.h]
        Child(child_node_cow, child_trie_node) ==
            IF child_trie_node.err
            THEN [err |-> TRUE, w |-> Drop(Drop(w, child_node_cow), self),
                  h |-> child_node_cow]
            ELSE Moved(cow_set_compressed_path(
                           w, child_node_cow,
                           path_prepended(child_trie_node.node, path_prefix,
                                          child_index)))
        Handle(child_node_cow) ==
            Child(child_node_cow,
                  get_trie_node(w, child_node_cow.node_ref, bad))
    IN  Handle(CowNodeRef_new(child_node_ref, w.own))

\* the handle cow_merge_path was invoked on, at the end of the call: it went
\* through delete_node unless a `?` returned before
cow_merge_path_self(w, self, trie_node, child_node_ref, child_index, bad) ==
    IF cow_merge_path(w, self, trie_node, child_node_ref, child_index,
                      bad).err
    THEN self
    ELSE delete_node_self(self)

(***************************************************************************)
(* The caller of the handle: the trie visitor.  A position is the sequence *)
(* of child indices from the root; a changed child reference is written   *)
(* into its parent through cow_modify, up to the root.                     *)
(***************************************************************************)
Front(q) == SubSeq(q, 1, Len(q) - 1)

Last(q) == q[Len(q)]

RECURSIVE Positions(_, _)
Positions(w, ref) ==
    LET Below(n) ==
            {<< >>} \cup
            UNION {{<< i >> \o q :
                       q \in Positions(w, FromCompact(n.children_table[i]))} :
                   i \in {j \in ChildIdx : n.children_table[j] # NULL_NODE}}
    IN  Below(get_trie_node(w, ref, {}).node)

RECURSIVE RefsAlong(_, _, _)
RefsAlong(w, ref, pos) ==
    IF pos = << >> THEN << ref >>
    ELSE << ref >> \o
         RefsAlong(w, FromCompact(get_trie_node(w, ref, {}).node
                                      .children_table[Head(pos)]),
                   Tail(pos))

RECURSIVE Rewire(_, _, _, _)
\* refs[j] is the node whose child idxs[j] lies on the way; cc is the new
\* reference of the last child: [err, w, root]
Rewire(w, refs, idxs, cc) ==
    LET Up(m) ==
            IF m.err THEN [err |-> TRUE, w |-> m.w, root |-> refs[1]]
            ELSE Rewire(m.w, Front(refs), Front(idxs), into_child(m.h))
        Parent(children_table) ==
            IF children_table[Last(idxs)] = cc
            THEN [err |-> FALSE, w |-> w, root |-> refs[1]]
            ELSE Up(cow_modify(w, CowNodeRef_new(Last(refs), w.own),
                               [children_table EXCEPT ![Last(idxs)] = cc]))
    IN  IF refs = << >> THEN [err |-> FALSE, w |-> w, root |-> FromCompact(cc)]
        ELSE Parent(get_trie_node(w, Last(refs), {}).node.children_table)

\* the only child of a node that has one child
OnlyChild(node) == CHOOSE c \in ChildIdx : node.children_table[c] # NULL_NODE

\* a node left with one child and no value is merged into that child:
\* m is the result [err, w, h] for the node; the result is that of the node
\* that takes its place
MergeIfPathNode(m, bad) ==
    LET Merged(node) ==
            IF ~has_value(node) /\ get_children_count(node) = 1
            THEN cow_merge_path(
                     m.w, m.h, node,
                     FromCompact(node.children_table[OnlyChild(node)]),
                     OnlyChild(node), bad)
            ELSE [err |-> FALSE, w |-> m.w, h |-> m.h]
    IN  IF m.err THEN [err |-> TRUE, w |-> m.w, h |-> m.h]
        ELSE Merged(m.w.slab[NodeSlot(m.w, m.h.node_ref)])

\* the new reference of the node at the end of refs is written upwards
RewireUp(m, refs, idxs) ==
    IF m.err \/ m.w.panic THEN [err |-> TRUE, w |-> m.w, root |-> refs[1]]
    ELSE Rewire(m.w, Front(refs), idxs, into_child(m.h))

\* the child idxs[last] of refs[last] was deleted: clear it in the parent
ClearChild(w, refs, idxs) ==
    cow_modify(w, CowNodeRef_new(Last(refs), w.own),
               [get_trie_node(w, Last(refs), {}).node.children_table
                    EXCEPT ![Last(idxs)] = NULL_NODE])

\* the child idxs[last] of refs[last] was deleted
RemoveChild(w, refs, idxs, bad) ==
    IF refs = << >> THEN [err |-> FALSE, w |-> w, root |-> NoRef]
    ELSE RewireUp(MergeIfPathNode(ClearChild(w, refs, idxs), bad),
                  refs, Front(idxs))

\* the state after an operation that leaves the world w and the root r; a
\* failed assertion ends the process
Store(w) ==
    /\ slab' = w.slab
    /\ node_ref_map' = w.cache
    /\ owned_node_set' = w.own
    /\ children_merkle_map' = w.cmm
    /\ txn' = w.txn
    /\ row_number' = w.row
    /\ db_delta_trie' = w.delta
    /\ db_children_merkles' = w.merkles

\* op is the operation; a failed assertion ends the process, and with it
\* the memory and the open transaction
Outcome(w, r, op) ==
    IF w.panic
    THEN /\ phase' = "panicked"
         /\ slab' = [i \in Slots |-> Vacant]
         /\ node_ref_map' = << >>
         /\ owned_node_set' = EmptyOwnedNodeSet
         /\ children_merkle_map' = << >>
         /\ txn' = << >>
         /\ root' = NoRef
         /\ last_op' = op
         /\ UNCHANGED << row_number, db_delta_trie, db_children_merkles >>
    ELSE /\ Store(w)
         /\ root' = r
         /\ phase' = phase
         /\ last_op' = "op"

\* the loads that fail during one operation: none, or those of one db key
BadLoads == {{}} \cup {{k} : k \in DOMAIN db_delta_trie}

PathsOk(w) ==
    \A i \in Slots : w.slab[i] # Vacant =>
                         Len(w.slab[i].compressed_path) <= MaxPathLen

dbVars == << db_delta_trie, db_children_merkles, committed_root, snapshot >>

committedVars == << committed_root, snapshot >>

\* set on an empty trie
Set_NewRoot(v) ==
    /\ phase = "write" /\ root = NoRef
    /\ \E r \in {new_uninitialized_node(
                     World,
                     TrieNode(<< >>, v, EmptyChildren, MERKLE_NULL_NODE))} :
           /\ ~r.err
           /\ Store(r.w)
           /\ root' = FromCompact(into_child(r.h))
    /\ last_op' = "op"
    /\ UNCHANGED << bdmVars, extVars, committedVars, phase, put_log >>

\* the new leaf is hung below the node at the end of refs
NewLeaf(r, refs, idxs) ==
    IF r.err THEN [err |-> TRUE, w |-> r.w, root |-> refs[1]]
    ELSE Rewire(r.w, refs, idxs, into_child(r.h))

\* set of a key that ends in a new leaf below the node at pos
Set_NewLeaf(pos, i, v) ==
    /\ phase = "write" /\ root # NoRef
    /\ Len(pos) < MaxDepth
    /\ pos \in Positions(World, root)
    /\ \E refs \in {RefsAlong(World, root, pos)} :
           /\ get_trie_node(World, Last(refs), {}).node.children_table[i]
                  = NULL_NODE
           /\ \E u \in {NewLeaf(new_uninitialized_node(
                                    World,
                                    TrieNode(<< >>, v, EmptyChildren,
                                             MERKLE_NULL_NODE)),
                                refs, pos \o << i >>)} :
                  /\ ~u.err
                  /\ Store(u.w)
                  /\ root' = u.root
    /\ last_op' = "op"
    /\ UNCHANGED << bdmVars, extVars, committedVars, phase, put_log >>

\* set of the key of the node at pos
Set_Replace(pos, v) ==
    /\ phase = "write" /\ root # NoRef
    /\ pos \in Positions(World, root)
    /\ \E refs \in {RefsAlong(World, root, pos)} :
           \E u \in {RewireUp(cow_replace_value_valid(
                                  World,
                                  CowNodeRef_new(Last(refs), owned_node_set),
                                  v),
                              refs, pos)} :
               /\ ~u.err
               /\ Store(u.w)
               /\ root' = u.root
    /\ last_op' = "op"
    /\ UNCHANGED << bdmVars, extVars, committedVars, phase, put_log >>

\* delete of the key of the node at the end of refs: [err, w, root]
DeleteAt(w, refs, pos, bad) ==
    LET self == CowNodeRef_new(Last(refs), w.own)
        Leaf(node) == get_children_count(node) = 0
    IN  IF Leaf(get_trie_node(w, Last(refs), {}).node)
        THEN \* delete_value_unchecked_followed_by_node_deletion, delete_node
             RemoveChild(delete_node(w, self), Front(refs), pos, bad)
        ELSE RewireUp(MergeIfPathNode(cow_delete_value_unchecked(w, self),
                                      bad),
                      refs, pos)

\* the state after an operation of the visitor with the result u
Visited(u, op) ==
    /\ ~(u.err /\ ~u.w.panic)
    /\ PathsOk(u.w)
    /\ Outcome(u.w, u.root, op)

Delete(pos, bad) ==
    /\ phase = "write" /\ root # NoRef
    /\ pos \in Positions(World, root)
    /\ \E refs \in {RefsAlong(World, root, pos)} :
           /\ has_value(get_trie_node(World, Last(refs), {}).node)
           /\ \E u \in {DeleteAt(World, refs, pos, bad)} :
                  Visited(u, "delete")
    /\ UNCHANGED << bdmVars, extVars, committedVars, put_log >>

\* the subtree is deleted, then its reference is cleared in the parent
Deleted(r, refs, pos, bad) ==
    IF r.err \/ r.w.panic THEN [err |-> r.err, w |-> r.w, root |-> refs[1]]
    ELSE RemoveChild(r.w, Front(refs), pos, bad)

\* delete_all of the subtree of the node at pos
DeleteAll(pos, bad) ==
    /\ phase = "write" /\ root # NoRef
    /\ pos \in Positions(World, root)
    /\ \E refs \in {RefsAlong(World, root, pos)} :
           \E r \in {delete_subtree(
                         World, CowNodeRef_new(Last(refs), owned_node_set),
                         get_trie_node(World, Last(refs), {}).node,
                         << >>, << >>, bad)} :
               \E u \in {Deleted(r, refs, pos, bad)} :
                      /\ ~(u.err /\ ~u.w.panic /\ ~r.err)
                      /\ PathsOk(u.w)
                      /\ Outcome(u.w, IF u.err THEN root ELSE u.root,
                                 "delete_all")
    /\ UNCHANGED << bdmVars, extVars, committedVars, put_log >>

\* iterate over the whole trie
Iterate(bad) ==
    /\ phase = "write" /\ root # NoRef
    /\ \E node \in {get_trie_node(World, root, {}).node} :
           \E r \in {iterate_internal(World, node, node.compressed_path,
                                      << >>, bad)} :
               Outcome(r.w, root, "iterate")
    /\ UNCHANGED << bdmVars, extVars, committedVars, put_log >>

\* compute_merkle of the session's root; the session is then ready to commit
ComputeMerkle(bad) ==
    /\ phase = "write" /\ root # NoRef
    /\ CowNodeRef_new(root, owned_node_set).owned
    /\ \E r \in {get_or_compute_merkle(
                     World, CowNodeRef_new(root, owned_node_set), bad)} :
           /\ Store(r.w)
           /\ phase' = IF r.err THEN phase ELSE "computed"
           /\ last_op' = "op"
    /\ UNCHANGED << bdmVars, extVars, committedVars, root, put_log >>

\* the DELTA_TRIE keys put by the puts q
PutKeys(q) ==
    [n \in 1 .. Cardinality({m \in 1 .. Len(q) : q[m].col = "DELTA_TRIE"}) |->
        LET idx == CHOOSE m \in 1 .. Len(q) :
                       /\ q[m].col = "DELTA_TRIE"
                       /\ Cardinality({x \in 1 .. m :
                                           q[x].col = "DELTA_TRIE"}) = n
        IN  q[idx].key]

\* State::commit: the dirty nodes of the session go into the transaction
CommitDirty ==
    /\ phase = "computed" /\ root # NoRef
    /\ CowNodeRef_new(root, owned_node_set).owned
    /\ \E r \in {commit_dirty_recursively(
                     World, CowNodeRef_new(root, owned_node_set))} :
           /\ ~r.err
           /\ Store(r.w)
           /\ root' = FromCompact(into_child(r.h))
           /\ put_log' = put_log \o PutKeys(r.w.txn)
    /\ phase' = "committing"
    /\ last_op' = "commit_dirty"
    /\ UNCHANGED << bdmVars, extVars, committedVars >>

ApplyPuts(db, q, col) ==
    [k \in (DOMAIN db) \cup {q[m].key : m \in {x \in 1 .. Len(q) :
                                                   q[x].col = col}} |->
        IF \E m \in 1 .. Len(q) : q[m].col = col /\ q[m].key = k
        THEN q[CHOOSE m \in 1 .. Len(q) :
                   /\ q[m].col = col /\ q[m].key = k
                   /\ \A x \in (m + 1) .. Len(q) :
                          ~(q[x].col = col /\ q[x].key = k)].value
        ELSE db[k]]

\* the atomic transaction commits: its puts become visible together, the
\* session ends and the next one starts from the new root with a fresh
\* owner set
TxnCommit ==
    /\ phase = "committing"
    /\ db_delta_trie' = ApplyPuts(db_delta_trie, txn, "DELTA_TRIE")
    /\ db_children_merkles' =
           ApplyPuts(db_children_merkles, txn, "CHILDREN_MERKLES")
    /\ txn' = << >>
    /\ committed_root' = root
    /\ owned_node_set' = EmptyOwnedNodeSet
    /\ children_merkle_map' = << >>
    /\ snapshot' = [k \in DOMAIN db_delta_trie' |->
                       IF k \in DOMAIN snapshot THEN snapshot[k]
                       ELSE get_trie_node(World, Committed(k), {}).node]
    /\ phase' = "write"
    /\ last_op' = "txn_commit"
    /\ UNCHANGED << bdmVars, extVars, slab, node_ref_map, root, row_number,
                    put_log >>

\* what is left of the memory when a session is abandoned: the cached nodes
\* of rows that are in the db
AbandonedSlab ==
    [i \in Slots |->
        IF \E k \in DOMAIN db_delta_trie :
               k \in DOMAIN node_ref_map /\ node_ref_map[k] = i
        THEN slab[i] ELSE Vacant]

AbandonedCache ==
    [k \in (DOMAIN node_ref_map) \cap (DOMAIN db_delta_trie) |->
        node_ref_map[k]]

\* the atomic transaction aborts: none of its puts becomes visible and the
\* session is abandoned
TxnAbort ==
    /\ phase = "committing"
    /\ txn' = << >>
    /\ slab' = AbandonedSlab
    /\ node_ref_map' = AbandonedCache
    /\ owned_node_set' = EmptyOwnedNodeSet
    /\ children_merkle_map' = << >>
    /\ root' = committed_root
    /\ phase' = "write"
    /\ last_op' = "txn_abort"
    /\ UNCHANGED << bdmVars, extVars, dbVars, row_number, put_log >>

\* the write session is abandoned without a commit
Abort ==
    /\ phase \in {"write", "computed"}
    /\ owned_node_set # EmptyOwnedNodeSet
    /\ slab' = AbandonedSlab
    /\ node_ref_map' = AbandonedCache
    /\ owned_node_set' = EmptyOwnedNodeSet
    /\ children_merkle_map' = << >>
    /\ root' = committed_root
    /\ phase' = "write"
    /\ last_op' = "abort"
    /\ UNCHANGED << bdmVars, extVars, dbVars, row_number, txn, put_log >>

\* the cache manager evicts the committed node of row k
Evict(k) ==
    /\ phase = "write"
    /\ k \in DOMAIN node_ref_map
    /\ k \in DOMAIN db_delta_trie
    /\ slab' = [slab EXCEPT ![node_ref_map[k]] = Vacant]
    /\ node_ref_map' = MapDel(node_ref_map, k)
    /\ UNCHANGED << bdmVars, extVars, dbVars, owned_node_set,
                    children_merkle_map, root, row_number, txn, phase,
                    put_log, last_op >>

\* a reader loads the committed node of row k into the cache, between two
\* write sessions
CacheLoad(k) ==
    /\ phase = "write"
    /\ owned_node_set = EmptyOwnedNodeSet
    /\ k \in DOMAIN db_delta_trie
    /\ k \notin DOMAIN node_ref_map
    /\ FreeSlots(World) # {}
    /\ slab' = [slab EXCEPT ![new_node_slot(World)] =
                                rlp_decode(db_delta_trie[k])]
    /\ node_ref_map' = MapPut(node_ref_map, k, new_node_slot(World))
    /\ UNCHANGED << bdmVars, extVars, dbVars, owned_node_set,
                    children_merkle_map, root, row_number, txn, phase,
                    put_log, last_op >>

TrieInit ==
    /\ slab = [i \in Slots |-> Vacant]
    /\ node_ref_map = << >>
    /\ owned_node_set = EmptyOwnedNodeSet
    /\ children_merkle_map = << >>
    /\ root = NoRef
    /\ committed_root = NoRef
    /\ db_delta_trie = << >>
    /\ db_children_merkles = << >>
    /\ row_number = 0
    /\ txn = << >>
    /\ phase = "write"
    /\ put_log = << >>
    /\ snapshot = << >>
    /\ last_op = "init"

AllPositions ==
    UNION {[1 .. n -> ChildIdx] : n \in 0 .. MaxDepth}

TrieNext ==
    \/ \E v \in Values : Set_NewRoot(v)
    \/ \E pos \in AllPositions, i \in ChildIdx, v \in Values :
           Set_NewLeaf(pos, i, v)
    \/ \E pos \in AllPositions, v \in Values : Set_Replace(pos, v)
    \/ \E pos \in AllPositions, bad \in BadLoads : Delete(pos, bad)
    \/ \E pos \in AllPositions, bad \in BadLoads : DeleteAll(pos, bad)
    \/ \E bad \in BadLoads : Iterate(bad)
    \/ \E bad \in BadLoads : ComputeMerkle(bad)
    \/ CommitDirty
    \/ TxnCommit
    \/ TxnAbort
    \/ Abort
    \/ \E k \in DbKeys : Evict(k)
    \/ \E k \in DbKeys : CacheLoad(k)


(***************************************************************************)
(* Properties of the trie.                                                 *)
(***************************************************************************)
\* the key-value pairs below a node reference, read through the cache and
\* the delta db
RECURSIVE Contents(_, _, _)
Contents(w, ref, key_prefix) ==
    LET Below(n, key) ==
            (IF has_value(n) THEN {<< key, n.value >>} ELSE {})
            \cup UNION {Contents(w, FromCompact(n.children_table[i]),
                                 key \o << i >>) :
                        i \in {j \in ChildIdx :
                                   n.children_table[j] # NULL_NODE}}
        Node(n) == Below(n, key_prefix \o n.compressed_path)
    IN  Node(get_trie_node(w, ref, {}).node)

\* the same pairs, read from the nodes as they were when committed
RECURSIVE SnapContents(_, _)
SnapContents(ref, key_prefix) ==
    LET Below(n, key) ==
            (IF has_value(n) THEN {<< key, n.value >>} ELSE {})
            \cup UNION {SnapContents(FromCompact(n.children_table[i]),
                                     key \o << i >>) :
                        i \in {j \in ChildIdx :
                                   n.children_table[j] # NULL_NODE}}
        Node(n) == Below(n, key_prefix \o n.compressed_path)
    IN  Node(snapshot[ref.db_key])

SameNode(a, b) ==
    /\ a.compressed_path = b.compressed_path
    /\ a.value = b.value
    /\ a.children_table = b.children_table

CommittedNodesUnchanged ==
    \A k \in DOMAIN snapshot :
        SameNode(get_trie_node(World, Committed(k), {}).node, snapshot[k])

\* the rows of the committed nodes that no committed node has as a child:
\* the roots of the commits
CommittedRoots ==
    {k \in DOMAIN db_delta_trie :
        \A p \in DOMAIN db_delta_trie, i \in ChildIdx :
            db_delta_trie[p].children_table[i] # [t |-> 1, l |-> k]}

\* C1: snapshot isolation.  Whatever copy-on-write mutations a write session
\* that started from a committed root with an empty owner set has made, every
\* committed node still has the compressed path, value and children table it
\* was committed with, and the keys under each committed root read as they
\* did at the commit.
C1_SnapshotIsolation ==
    /\ CommittedNodesUnchanged
    /\ \A k \in CommittedRoots :
           Contents(World, Committed(k), << >>)
               = SnapContents(Committed(k), << >>)

\* a session has copied a committed node and its trie differs from the
\* committed one
C1_Witness ==
    /\ phase = "write"
    /\ committed_root # NoRef
    /\ root # NoRef
    /\ \E i \in DOMAIN owned_node_set.dirty : owned_node_set.dirty[i] # None
    /\ Contents(World, root, << >>)
           # Contents(World, committed_root, << >>)

\* C2: owner-drop invariant.  No handle is dropped while its owned flag is
\* true, the assertion in Drop never fails.
C2_NoOwnedDrop == phase # "panicked"

\* the encoded child reference c is Committed and its row was written by an
\* earlier commit or put before position n of the transaction
ChildPutBefore(c, n) ==
    /\ c.t = 1
    /\ \/ c.l \in DOMAIN db_delta_trie
       \/ \E m \in 1 .. (n - 1) :
              txn[m].col = "DELTA_TRIE" /\ txn[m].key = c.l

\* C3: post-order commit.  Every child reference in a node encoded into the
\* transaction is Committed, with a db key that was put earlier in the same
\* transaction or written by an earlier commit; a Dirty child reference is
\* never encoded.
C3_PostOrderCommit ==
    /\ \A n \in 1 .. Len(txn) :
           txn[n].col = "DELTA_TRIE" =>
               \A i \in ChildIdx :
                   txn[n].value.children_table[i] # rlp_append(NULL_NODE) =>
                       ChildPutBefore(txn[n].value.children_table[i], n)
    /\ \A k \in DOMAIN db_delta_trie, i \in ChildIdx :
           db_delta_trie[k].children_table[i] # rlp_append(NULL_NODE) =>
               /\ db_delta_trie[k].children_table[i].t = 1
               /\ db_delta_trie[k].children_table[i].l \in DOMAIN db_delta_trie
               /\ db_delta_trie[k].children_table[i].l < k

\* a parent was put after its child in the open transaction
C3_Witness ==
    /\ phase = "committing"
    /\ \E n \in 1 .. Len(txn), m \in 1 .. Len(txn), i \in ChildIdx :
           /\ m < n
           /\ txn[n].col = "DELTA_TRIE" /\ txn[m].col = "DELTA_TRIE"
           /\ txn[n].value.children_table[i] = [t |-> 1, l |-> txn[m].key]

\* C4: monotonic row numbers.  Each node written by commit_dirty_recursively
\* gets the current row number as db key and the row number is then advanced:
\* every newly written db key is greater than all db keys written before, in
\* one commit and across commits, and no two nodes get the same db key.
C4_MonotonicRowNumbers ==
    /\ \A i \in 1 .. Len(put_log), j \in 1 .. Len(put_log) :
           i < j => put_log[i] < put_log[j]
    /\ \A i \in 1 .. Len(put_log) : put_log[i] < row_number
    /\ \A k \in DOMAIN db_delta_trie : \E i \in 1 .. Len(put_log) :
           put_log[i] = k
    /\ \A n \in 1 .. Len(txn) :
           /\ txn[n].key < row_number
           /\ txn[n].key \notin DOMAIN db_delta_trie
           /\ \A m \in 1 .. (n - 1) :
                  txn[m].col = txn[n].col => txn[m].key < txn[n].key

\* two commits have written their rows
C4_Witness ==
    /\ last_op = "txn_commit"
    /\ Cardinality(CommittedRoots) >= 2
    /\ Len(put_log) >= 2

\* C5: non-interference on abort.  Only the commit of the transaction changes
\* the DELTA_TRIE and CHILDREN_MERKLES columns: no operation of the handle
\* writes to the delta db, commit_dirty_recursively writes into the
\* transaction only, and a session that is abandoned leaves both columns and
\* every committed node as they were.
C5_AbortNonInterference ==
    [][/\ (db_delta_trie' # db_delta_trie
              \/ db_children_merkles' # db_children_merkles)
          => (phase = "committing" /\ last_op' = "txn_commit")
       /\ last_op' \in {"abort", "txn_abort"} =>
              /\ db_delta_trie' = db_delta_trie
              /\ db_children_merkles' = db_children_merkles
              /\ root' = committed_root
              /\ CommittedNodesUnchanged'
      ]_trieVars

\* a session that had mutated the committed trie was abandoned
C5_Witness ==
    /\ last_op = "abort"
    /\ committed_root # NoRef
    /\ root = committed_root


(***************************************************************************)
(* block_data_manager.rs: the block data manager.  A block hash and an     *)
(* epoch hash are numbers, a Bloom is the set of its set bits, a receipt   *)
(* is the record of its log bloom.                                         *)
(***************************************************************************)
MaxHash == 2
MaxEpoch == 2
BloomBits == 2

Hashes == 1 .. MaxHash
Epochs == 1 .. MaxEpoch
ReceiptLists ==
    {<< >>, << [log_bloom |-> {0}], [log_bloom |-> {BloomBits - 1}] >>}

BLOCK_STATUS_SUFFIX_BYTE == 1
BLOCK_BODY_SUFFIX_BYTE == 2

\* the hash of the genesis block the manager is constructed with
genesis_block == 1

NoResult == [some |-> FALSE]
Some(v) == [some |-> TRUE, v |-> v]

\* a bloom that takes the other bloom's bits instead of adding them
accrue_bloom_overwrite(b, bloom) == bloom

\* Bloom::accrue_bloom: bitwise or
accrue_bloom(b, bloom) == b \cup bloom

\* receipts.iter().fold(Bloom::zero(), ...)
RECURSIVE fold_log_blooms(_, _)
fold_log_blooms(b, receipts) ==
    IF receipts = << >> THEN b
    ELSE fold_log_blooms(accrue_bloom(b, Head(receipts).log_bloom),
                         Tail(receipts))

BlockExecutedResult(receipts, bloom) ==
    [receipts |-> receipts, bloom |-> bloom]

\* the RLP list of three items stored under BLOCK_RECEIPTS
rlp_block_receipts(epoch, receipts, bloom) == << epoch, receipts, bloom >>

BlockReceiptsInfo_default == << >>

get_receipts_at_epoch(info_with_epoch, epoch) ==
    IF \E i \in 1 .. Len(info_with_epoch) : info_with_epoch[i][1] = epoch
    THEN Some(info_with_epoch[
                  MinOf({i \in 1 .. Len(info_with_epoch) :
                             info_with_epoch[i][1] = epoch})][2])
    ELSE NoResult

insert_receipts_at_epoch(info_with_epoch, epoch, receipts) ==
    IF get_receipts_at_epoch(info_with_epoch, epoch) = NoResult
    THEN Append(info_with_epoch, << epoch, receipts >>)
    ELSE info_with_epoch

\* a retain that keeps every entry
retain_every_epoch(info_with_epoch, epoch) == info_with_epoch

retain_epoch(info_with_epoch, epoch) ==
    SelectSeq(info_with_epoch, LAMBDA entry : entry[1] = epoch)

block_results_by_hash_from_db(col, hash) ==
    IF hash \in DOMAIN col
    THEN Some(<< col[hash][1],
                 BlockExecutedResult(col[hash][2], col[hash][3]) >>)
    ELSE NoResult

\* block_receipts.entry(hash).or_insert(default).insert_receipts_at_epoch
entry_insert_receipts(mem, hash, epoch, receipts) ==
    MapPut(mem, hash,
           insert_receipts_at_epoch(
               IF hash \in DOMAIN mem THEN mem[hash]
               ELSE BlockReceiptsInfo_default,
               epoch, receipts))

\* a lookup that takes the row of the db whatever its epoch
block_results_any_epoch(mem, col, hash, assumed_epoch, update_cache) ==
    LET FromDb(r) ==
            IF ~r.some THEN [ret |-> NoResult, block_receipts |-> mem]
            ELSE [ret |-> Some(r.v[2]),
                  block_receipts |->
                      IF update_cache
                      THEN entry_insert_receipts(mem, hash, assumed_epoch,
                                                 r.v[2])
                      ELSE mem]
        Found(maybe_receipts) ==
            IF maybe_receipts.some
            THEN [ret |-> maybe_receipts, block_receipts |-> mem]
            ELSE FromDb(block_results_by_hash_from_db(col, hash))
    IN  Found(IF hash \in DOMAIN mem
              THEN get_receipts_at_epoch(mem[hash], assumed_epoch)
              ELSE NoResult)

block_results_by_hash_with_epoch(mem, col, hash, assumed_epoch, update_cache) ==
    LET FromDb(r) ==
            IF ~r.some THEN [ret |-> NoResult, block_receipts |-> mem]
            ELSE IF r.v[1] # assumed_epoch
            THEN [ret |-> NoResult, block_receipts |-> mem]
            ELSE [ret |-> Some(r.v[2]),
                  block_receipts |->
                      IF update_cache
                      THEN entry_insert_receipts(mem, hash, assumed_epoch,
                                                 r.v[2])
                      ELSE mem]
        Found(maybe_receipts) ==
            IF maybe_receipts.some
            THEN [ret |-> maybe_receipts, block_receipts |-> mem]
            ELSE FromDb(block_results_by_hash_from_db(col, hash))
    IN  Found(IF hash \in DOMAIN mem
              THEN get_receipts_at_epoch(mem[hash], assumed_epoch)
              ELSE NoResult)

insert_block_results_to_kv(mem, col, hash, epoch, receipts, persistent) ==
    LET Insert(bloom) ==
            [col_block_receipts |->
                 IF persistent
                 THEN MapPut(col, hash,
                             rlp_block_receipts(epoch, receipts, bloom))
                 ELSE col,
             block_receipts |->
                 entry_insert_receipts(mem, hash, epoch,
                                       BlockExecutedResult(receipts, bloom))]
    IN  Insert(fold_log_blooms({}, receipts))

\* a retain that reports an entry emptied by an earlier retain as missing
receipts_retain_epoch_nonempty(mem, block_hash, epoch) ==
    IF block_hash \in DOMAIN mem /\ mem[block_hash] # << >>
    THEN [ret |-> TRUE,
          block_receipts |->
              [mem EXCEPT ![block_hash] = retain_epoch(@, epoch)]]
    ELSE [ret |-> FALSE, block_receipts |-> mem]

receipts_retain_epoch(mem, block_hash, epoch) ==
    IF block_hash \in DOMAIN mem
    THEN [ret |-> TRUE,
          block_receipts |->
              [mem EXCEPT ![block_hash] = retain_epoch(@, epoch)]]
    ELSE [ret |-> FALSE, block_receipts |-> mem]

block_status_key(block_hash) == << block_hash, BLOCK_STATUS_SUFFIX_BYTE >>
block_body_key(block_hash) == << block_hash, BLOCK_BODY_SUFFIX_BYTE >>

\* insert_block_to_kv: header and body rows when persistent, then the map
insert_block_to_kv(col, hash, persistent) ==
    IF persistent
    THEN MapPut(MapPut(col, << hash >>, << "header", hash >>),
                block_body_key(hash), << "body", hash >>)
    ELSE col

BlockStatus == {"Valid", "Invalid", "PartialInvalid", "Pending"}

to_db_status(status) ==
    CASE status = "Valid" -> 0
      [] status = "Invalid" -> 1
      [] status = "PartialInvalid" -> 2
      [] status = "Pending" -> 3

from_db_status(db_status) ==
    CASE db_status = 0 -> "Valid"
      [] db_status = 1 -> "Invalid"
      [] db_status = 2 -> "PartialInvalid"
      [] db_status = 3 -> "Pending"

\* a status write that merges the byte into the row instead of replacing it
insert_block_status_merge(col, block_hash, status) ==
    MapPut(col, block_status_key(block_hash),
           IF block_status_key(block_hash) \in DOMAIN col
           THEN (col[block_status_key(block_hash)] + to_db_status(status)) % 4
           ELSE to_db_status(status))

insert_block_status_to_db(col, block_hash, status) ==
    MapPut(col, block_status_key(block_hash), to_db_status(status))

\* BlockDataManager::invalidate_block: the status row, then the set
invalidate_block(set, col, block_hash) ==
    [col_blocks |-> insert_block_status_to_db(col, block_hash, "Invalid"),
     invalid_block_set |-> set \cup {block_hash}]

block_status_from_db(col, block_hash) ==
    IF block_status_key(block_hash) \in DOMAIN col
    THEN Some(from_db_status(col[block_status_key(block_hash)]))
    ELSE NoResult

\* a check that answers from the in-memory set only
verified_invalid_memory_only(set, col, block_hash) ==
    [ret |-> block_hash \in set, invalid_block_set |-> set]

verified_invalid(set, col, block_hash) ==
    LET FromDb(status) ==
            IF status.some /\ status.v = "Invalid"
            THEN [ret |-> TRUE, invalid_block_set |-> set \cup {block_hash}]
            ELSE [ret |-> FALSE, invalid_block_set |-> set]
    IN  IF block_hash \in set
        THEN [ret |-> TRUE, invalid_block_set |-> set]
        ELSE FromDb(block_status_from_db(col, block_hash))

(***************************************************************************)
(* The block, header and transaction-address parts of the data manager.    *)
(* A block is known by its hash: its header is the hash, its transactions  *)
(* are Transactions(hash).  The operations work on the record Self of the  *)
(* manager's fields and give the changed record, with the value returned   *)
(* where there is one; noted are the ids passed to note_used, in order,    *)
(* tx_puts the keys put into TX_ADDRESS, panic says that an expect or      *)
(* unwrap failed.                                                          *)
(***************************************************************************)
MaxTx == 2

TxHashes == 1 .. MaxTx

\* block.transactions of the block with this hash
Transactions(hash) == [i \in 1 .. (MaxTx + 1 - hash) |-> hash + i - 1]

TRANSACTION_OUTCOME_SUCCESS == 0

\* the receipts the execution of a block in an epoch gives, one for each
\* of its transactions
ExecutedReceipts(hash, epoch) ==
    [i \in 1 .. Len(Transactions(hash)) |->
        [outcome_status |-> (Transactions(hash)[i] + epoch) % 2,
         log_bloom |-> {Transactions(hash)[i] % BloomBits}]]

DataManagerConfiguration_new(record_tx_address, persist_header) ==
    [record_tx_address |-> record_tx_address,
     persist_header |-> persist_header]

Configs ==
    {DataManagerConfiguration_new(r, p) : r \in BOOLEAN, p \in BOOLEAN}

TransactionAddress(block_hash, index) ==
    [block_hash |-> block_hash, index |-> index]

\* rlp::encode(tx_address) and its decoding
rlp_tx_address(tx_address) == << tx_address.block_hash, tx_address.index >>

decode_tx_address(row) == TransactionAddress(row[1], row[2])

\* CacheId
CacheId(family, hash) == << family, hash >>

\* the cache manager of a specification that does not follow it
NoCacheManager == << << "untracked" >> >>

\* CacheManager::note_used: the id becomes the most recently used one
lru_note_used(cm, id) ==
    IF cm = NoCacheManager THEN cm
    ELSE SelectSeq(cm, LAMBDA x : x # id) \o << id >>

Self ==
    [block_headers |-> block_headers, blocks |-> blocks,
     compact_blocks |-> compact_blocks, block_receipts |-> block_receipts,
     transaction_addresses |-> transaction_addresses,
     transaction_pubkey_cache |-> transaction_pubkey_cache,
     block_receipts_root |-> block_receipts_root,
     col_blocks |-> col_blocks, col_block_receipts |-> col_block_receipts,
     col_tx_address |-> col_tx_address, cache_man |-> cache_man,
     config |-> config, noted |-> << >>, tx_puts |-> << >>,
     panic |-> FALSE]

\* self.cache_man.lock().note_used(id)
note_used(d, id) ==
    [d EXCEPT !.cache_man = lru_note_used(@, id), !.noted = Append(@, id)]

block_header_from_db(d, hash) ==
    IF << hash >> \in DOMAIN d.col_blocks THEN Some(hash) ELSE NoResult

block_body_from_db(d, block_hash) ==
    IF block_body_key(block_hash) \in DOMAIN d.col_blocks
    THEN Some(Transactions(block_hash))
    ELSE NoResult

block_header_by_hash(d, hash) ==
    IF hash \in d.block_headers THEN [d |-> d, ret |-> Some(hash)]
    ELSE IF ~d.config.persist_header THEN [d |-> d, ret |-> NoResult]
    ELSE IF block_header_from_db(d, hash).some
    THEN [d |-> note_used([d EXCEPT !.block_headers = @ \cup {hash}],
                          CacheId("BlockHeader", hash)),
          ret |-> Some(hash)]
    ELSE [d |-> d, ret |-> NoResult]

block_by_hash(d, hash, update_cache) ==
    LET Built(header) ==
            IF ~header.ret.some \/ ~block_body_from_db(header.d, hash).some
            THEN [d |-> header.d, ret |-> NoResult]
            ELSE [d |-> IF update_cache
                        THEN note_used([header.d EXCEPT
                                           !.blocks = @ \cup {hash}],
                                       CacheId("Block", hash))
                        ELSE header.d,
                  ret |-> Some(hash)]
    IN  IF hash \in d.blocks THEN [d |-> d, ret |-> Some(hash)]
        ELSE Built(block_header_by_hash(d, hash))

\* insert_block_to_kv with its call of the cache manager
insert_block_to_kv_cm(d, hash, persistent) ==
    note_used([d EXCEPT !.col_blocks = insert_block_to_kv(@, hash, persistent),
                        !.blocks = @ \cup {hash}],
              CacheId("Block", hash))

remove_block_from_kv(d, hash) ==
    [d EXCEPT !.blocks = @ \ {hash}, !.col_blocks = MapDel(@, << hash >>)]

insert_block_header(d, hash) ==
    LET Inserted(d1) == [d1 EXCEPT !.block_headers = @ \cup {hash}]
    IN  IF d.config.persist_header
        THEN Inserted(note_used(
                 [d EXCEPT !.col_blocks =
                               MapPut(@, << hash >>, << "header", hash >>)],
                 CacheId("BlockHeader", hash)))
        ELSE Inserted(d)

remove_block_header(d, hash) == [d EXCEPT !.block_headers = @ \ {hash}]

compact_block_by_hash(d, hash) ==
    IF hash \in d.compact_blocks
    THEN [d |-> note_used(d, CacheId("CompactBlock", hash)),
          ret |-> Some(hash)]
    ELSE [d |-> d, ret |-> NoResult]

insert_compact_block(d, hash) ==
    note_used([d EXCEPT !.compact_blocks = @ \cup {hash}],
              CacheId("CompactBlock", hash))

cache_transaction(d, tx_hash) ==
    note_used([d EXCEPT !.transaction_pubkey_cache = @ \cup {tx_hash}],
              CacheId("TransactionPubkey", tx_hash))

insert_receipts_root(d, block_hash) ==
    [d EXCEPT !.block_receipts_root = @ \cup {block_hash}]

get_receipts_root(d, block_hash) == block_hash \in d.block_receipts_root

\* block_results_by_hash_with_epoch with its call of the cache manager
block_results_by_hash_with_epoch_cm(d, hash, assumed_epoch, update_cache) ==
    LET Installed(r) ==
            IF r.block_receipts = d.block_receipts
            THEN [d |-> d, ret |-> r.ret]
            ELSE [d |-> note_used([d EXCEPT !.block_receipts =
                                                r.block_receipts],
                                  CacheId("BlockReceipts", hash)),
                  ret |-> r.ret]
    IN  Installed(block_results_by_hash_with_epoch(
                      d.block_receipts, d.col_block_receipts, hash,
                      assumed_epoch, update_cache))

\* insert_block_results_to_kv with its call of the cache manager
insert_block_results_to_kv_cm(d, hash, epoch, receipts, persistent) ==
    LET Inserted(r) ==
            note_used([d EXCEPT !.block_receipts = r.block_receipts,
                                !.col_block_receipts = r.col_block_receipts],
                      CacheId("BlockReceipts", hash))
    IN  Inserted(insert_block_results_to_kv(
                     d.block_receipts, d.col_block_receipts, hash, epoch,
                     receipts, persistent))

transaction_address_by_hash_from_db(d, hash) ==
    IF hash \in DOMAIN d.col_tx_address
    THEN Some(decode_tx_address(d.col_tx_address[hash]))
    ELSE NoResult

transaction_address_by_hash(d, hash, update_cache) ==
    LET FromDb(address) ==
            IF address.some /\ update_cache
            THEN [d |-> note_used(
                            [d EXCEPT !.transaction_addresses =
                                          MapPut(@, hash, address.v)],
                            CacheId("TransactionAddress", hash)),
                  ret |-> address]
            ELSE [d |-> d, ret |-> address]
    IN  IF hash \in DOMAIN d.transaction_addresses
        THEN [d |-> d, ret |-> Some(d.transaction_addresses[hash])]
        ELSE FromDb(transaction_address_by_hash_from_db(d, hash))

insert_transaction_address_to_kv(d, hash, tx_address) ==
    LET Put(d1) ==
            [d1 EXCEPT !.col_tx_address =
                           MapPut(@, hash, rlp_tx_address(tx_address)),
                       !.tx_puts = Append(@, hash)]
    IN  IF ~d.config.record_tx_address THEN d
        ELSE IF hash \in DOMAIN d.transaction_addresses
        THEN Put(note_used([d EXCEPT !.transaction_addresses[hash] =
                                         tx_address],
                           CacheId("TransactionAddress", hash)))
        ELSE Put(d)

\* epoch_executed; contains_state is the answer of the storage manager
epoch_executed(d, epoch_hash, contains_state) ==
    get_receipts_root(d, epoch_hash) /\ contains_state

RECURSIVE collect_epoch_receipts(_, _, _, _, _)
\* the first loop of epoch_executed_and_recovered: [d, ok, epoch_receipts]
collect_epoch_receipts(d, epoch_hash, epoch_block_hashes, i, epoch_receipts) ==
    LET Pushed(r) ==
            IF r.ret.some
            THEN collect_epoch_receipts(
                     r.d, epoch_hash, epoch_block_hashes, i + 1,
                     Append(epoch_receipts, r.ret.v.receipts))
            ELSE [d |-> r.d, ok |-> FALSE, epoch_receipts |-> epoch_receipts]
    IN  IF i > Len(epoch_block_hashes)
        THEN [d |-> d, ok |-> TRUE, epoch_receipts |-> epoch_receipts]
        ELSE Pushed(block_results_by_hash_with_epoch_cm(
                        d, epoch_block_hashes[i], epoch_hash, TRUE))

RECURSIVE recover_block_tx_addresses(_, _, _, _, _)
\* the loop over block.transactions; tx_idx counts from 0 as in the code
recover_block_tx_addresses(d, block_hash, transactions, receipts, tx_idx) ==
    IF tx_idx >= Len(transactions) THEN d
    ELSE IF tx_idx >= Len(receipts)
    THEN \* epoch_receipts[block_idx].get(tx_idx).unwrap()
         [d EXCEPT !.panic = TRUE]
    ELSE recover_block_tx_addresses(
             IF receipts[tx_idx + 1].outcome_status
                    = TRANSACTION_OUTCOME_SUCCESS
             THEN insert_transaction_address_to_kv(
                      d, transactions[tx_idx + 1],
                      TransactionAddress(block_hash, tx_idx))
             ELSE d,
             block_hash, transactions, receipts, tx_idx + 1)

RECURSIVE recover_tx_addresses(_, _, _, _)
\* the second loop of epoch_executed_and_recovered
recover_tx_addresses(d, epoch_block_hashes, epoch_receipts, block_idx) ==
    LET Next1(d1) ==
            IF d1.panic THEN d1
            ELSE recover_tx_addresses(d1, epoch_block_hashes,
                                      epoch_receipts, block_idx + 1)
        Block(block) ==
            IF ~block.ret.some
            THEN \* .expect("block exists")
                 [block.d EXCEPT !.panic = TRUE]
            ELSE Next1(recover_block_tx_addresses(
                           block.d, epoch_block_hashes[block_idx],
                           Transactions(block.ret.v),
                           epoch_receipts[block_idx], 0))
    IN  IF block_idx > Len(epoch_block_hashes) THEN d
        ELSE Block(block_by_hash(d, epoch_block_hashes[block_idx], TRUE))

\* an epoch check that recovers the addresses whether or not the epoch is
\* on the local pivot chain
epoch_executed_and_recovered_any_chain(d, epoch_hash, epoch_block_hashes, on_local_pivot, contains_state) ==
    LET Recovered(d1) == [d |-> d1, ret |-> TRUE]
        Collected(c) ==
            IF ~c.ok THEN [d |-> c.d, ret |-> FALSE]
            ELSE Recovered(recover_tx_addresses(c.d, epoch_block_hashes,
                                                c.epoch_receipts, 1))
    IN  IF ~epoch_executed(d, epoch_hash, contains_state)
        THEN [d |-> d, ret |-> FALSE]
        ELSE IF d.config.record_tx_address
        THEN Collected(collect_epoch_receipts(d, epoch_hash,
                                              epoch_block_hashes, 1, << >>))
        ELSE [d |-> d, ret |-> TRUE]

epoch_executed_and_recovered(d, epoch_hash, epoch_block_hashes, on_local_pivot, contains_state) ==
    LET Recovered(d1) == [d |-> d1, ret |-> TRUE]
        Collected(c) ==
            IF ~c.ok THEN [d |-> c.d, ret |-> FALSE]
            ELSE Recovered(recover_tx_addresses(c.d, epoch_block_hashes,
                                                c.epoch_receipts, 1))
    IN  IF ~epoch_executed(d, epoch_hash, contains_state)
        THEN [d |-> d, ret |-> FALSE]
        ELSE IF d.config.record_tx_address /\ on_local_pivot
        THEN Collected(collect_epoch_receipts(d, epoch_hash,
                                              epoch_block_hashes, 1, << >>))
        ELSE [d |-> d, ret |-> TRUE]

\* cache_size().total(): every entry of a cache map is measured as one
\* unit of heap
cache_size_total(d) ==
    Cardinality(d.block_headers) + Cardinality(d.blocks)
        + Cardinality(d.compact_blocks)
        + Cardinality(DOMAIN d.block_receipts)
        + Cardinality(DOMAIN d.transaction_addresses)
        + Cardinality(d.transaction_pubkey_cache)

\* the marks of the cache manager
HighWaterMark == 3
LowWaterMark == 1

\* the closure block_cache_gc passes to collect_garbage: remove the ids
\* from their maps
evict_cb(d, ids) ==
    [d EXCEPT
        !.blocks = {h \in @ : CacheId("Block", h) \notin ids},
        !.block_receipts =
            [h \in {x \in DOMAIN @ : CacheId("BlockReceipts", x) \notin ids}
                |-> @[h]],
        !.transaction_addresses =
            [h \in {x \in DOMAIN @ :
                        CacheId("TransactionAddress", x) \notin ids}
                |-> @[h]],
        !.compact_blocks = {h \in @ : CacheId("CompactBlock", h) \notin ids},
        !.transaction_pubkey_cache =
            {h \in @ : CacheId("TransactionPubkey", h) \notin ids},
        !.block_headers = {h \in @ : CacheId("BlockHeader", h) \notin ids}]

RECURSIVE lru_evict(_, _)
\* CacheManager::collect_garbage past the high-water mark: victims in LRU
\* order, the least recently used id first, until the closure reports a
\* size below the low-water mark or no id is left
lru_evict(d, evicted) ==
    IF d.cache_man = << >> THEN [d |-> d, evicted |-> evicted]
    ELSE LET victim == Head(d.cache_man)
             d1 == [evict_cb(d, {victim}) EXCEPT !.cache_man = Tail(@)]
         IN  IF cache_size_total(d1) < LowWaterMark
             THEN [d |-> d1, evicted |-> Append(evicted, victim)]
             ELSE lru_evict(d1, Append(evicted, victim))

collect_garbage(d, current_size) ==
    IF current_size <= HighWaterMark THEN [d |-> d, evicted |-> << >>]
    ELSE lru_evict(d, << >>)

block_cache_gc(d) == collect_garbage(d, cache_size_total(d))

\* the cache manager a new process starts with
EmptyCacheManager == << >>

\* BlockDataManager::new on the db d holds: empty maps, then the receipts
\* root, the header and the block of genesis
BlockDataManager_new(d) ==
    insert_block_to_kv_cm(
        insert_block_header(
            insert_receipts_root(
                [d EXCEPT !.block_headers = {}, !.blocks = {},
                          !.compact_blocks = {}, !.block_receipts = << >>,
                          !.transaction_addresses = << >>,
                          !.transaction_pubkey_cache = {},
                          !.block_receipts_root = {},
                          !.cache_man = IF @ = NoCacheManager THEN @
                                        ELSE EmptyCacheManager,
                          !.noted = << >>, !.tx_puts = << >>,
                          !.panic = FALSE],
                genesis_block),
            genesis_block),
        genesis_block, TRUE)


(***************************************************************************)
(* The data manager's operations, one call at a time.                      *)
(***************************************************************************)
receiptsVars == << block_receipts, col_block_receipts, persisted >>
statusVars == << col_blocks, invalid_block_set, invalidated >>
concVars == << threads, receipts_lock >>

MaxThreads == 2
Threads == 1 .. MaxThreads
Idle == [pc |-> "idle"]

Call(op, hash, epoch, receipts, ret) ==
    [op |-> op, hash |-> hash, epoch |-> epoch, receipts |-> receipts,
     ret |-> ret]

\* BlockDataManager::new on a fresh db
BdmInit ==
    /\ block_receipts = << >>
    /\ col_block_receipts = << >>
    /\ blocks = {genesis_block}
    /\ col_blocks = insert_block_to_kv(<< >>, genesis_block, TRUE)
    /\ invalid_block_set = {}
    /\ bdm_call = Call("new", genesis_block, None, << >>, None)
    /\ persisted = [h \in Hashes |-> {}]
    /\ invalidated = {}
    /\ threads = [t \in Threads |-> Idle]
    /\ receipts_lock = {}

\* the manager BlockDataManager::new gives on a fresh db
NewOnFreshDb(c, cm) ==
    BlockDataManager_new(
        [block_headers |-> {}, blocks |-> {}, compact_blocks |-> {},
         block_receipts |-> << >>, transaction_addresses |-> << >>,
         transaction_pubkey_cache |-> {}, block_receipts_root |-> {},
         col_blocks |-> << >>, col_block_receipts |-> << >>,
         col_tx_address |-> << >>, cache_man |-> cm, config |-> c,
         noted |-> << >>, tx_puts |-> << >>, panic |-> FALSE])

IndexInit(c, cm) ==
    \E d \in {NewOnFreshDb(c, cm)} :
        /\ block_headers = d.block_headers
        /\ compact_blocks = d.compact_blocks
        /\ transaction_pubkey_cache = d.transaction_pubkey_cache
        /\ transaction_addresses = d.transaction_addresses
        /\ block_receipts_root = d.block_receipts_root
        /\ col_tx_address = d.col_tx_address
        /\ cache_man = d.cache_man
        /\ config = d.config

InsertBlockResultsToKv(hash, epoch, receipts, persistent) ==
    /\ \E r \in {insert_block_results_to_kv(
                     block_receipts, col_block_receipts, hash, epoch,
                     receipts, persistent)} :
           /\ block_receipts' = r.block_receipts
           /\ col_block_receipts' = r.col_block_receipts
    /\ persisted' = IF persistent
                    THEN [persisted EXCEPT ![hash] = @ \cup {epoch}]
                    ELSE persisted
    /\ bdm_call' = Call("insert_block_results_to_kv", hash, epoch, receipts,
                        None)
    /\ UNCHANGED << trieVars, blocks, statusVars, concVars, extVars >>

BlockResultsByHashWithEpoch(hash, assumed_epoch, update_cache) ==
    /\ \E r \in {block_results_by_hash_with_epoch(
                     block_receipts, col_block_receipts, hash, assumed_epoch,
                     update_cache)} :
           /\ block_receipts' = r.block_receipts
           /\ bdm_call' = Call("block_results_by_hash_with_epoch", hash,
                               assumed_epoch, << >>, r.ret)
    /\ UNCHANGED << trieVars, col_block_receipts, persisted,
                    blocks, statusVars, concVars, extVars >>

ReceiptsRetainEpoch(block_hash, epoch) ==
    /\ \E r \in {receipts_retain_epoch(block_receipts, block_hash, epoch)} :
           /\ block_receipts' = r.block_receipts
           /\ bdm_call' = Call("receipts_retain_epoch", block_hash, epoch,
                               << >>, r.ret)
    /\ UNCHANGED << trieVars, col_block_receipts, persisted,
                    blocks, statusVars, concVars, extVars >>

\* block_cache_gc: the cache manager names the entries to drop
CacheIds ==
    {<< "Block", h >> : h \in blocks}
    \cup {<< "BlockReceipts", h >> : h \in DOMAIN block_receipts}

BlockCacheGc(ids) ==
    /\ ids # {}
    /\ blocks' = {h \in blocks : << "Block", h >> \notin ids}
    /\ block_receipts' =
           [h \in {x \in DOMAIN block_receipts :
                       << "BlockReceipts", x >> \notin ids} |->
               block_receipts[h]]
    /\ bdm_call' = Call("block_cache_gc", None, None, << >>, None)
    /\ UNCHANGED << trieVars, col_block_receipts, persisted,
                    statusVars, concVars, extVars >>

\* the process stops and BlockDataManager::new runs again on the same db
Restart ==
    /\ block_receipts' = << >>
    /\ blocks' = {genesis_block}
    /\ invalid_block_set' = {}
    /\ col_blocks' = insert_block_to_kv(col_blocks, genesis_block, TRUE)
    /\ bdm_call' = Call("new", genesis_block, None, << >>, None)
    /\ \E d \in {BlockDataManager_new(Self)} :
           /\ block_headers' = d.block_headers
           /\ compact_blocks' = d.compact_blocks
           /\ transaction_pubkey_cache' = d.transaction_pubkey_cache
           /\ transaction_addresses' = d.transaction_addresses
           /\ block_receipts_root' = d.block_receipts_root
           /\ cache_man' = d.cache_man
    /\ UNCHANGED << trieVars, col_block_receipts, persisted,
                    invalidated, concVars, col_tx_address, config,
                    kvdbVars, codec, row_limit, unitVars >>

InsertBlockToKv(hash, persistent) ==
    /\ col_blocks' = insert_block_to_kv(col_blocks, hash, persistent)
    /\ blocks' = blocks \cup {hash}
    /\ bdm_call' = Call("insert_block_to_kv", hash, None, << >>, persistent)
    /\ UNCHANGED << trieVars, receiptsVars, invalid_block_set, invalidated,
                    concVars, extVars >>

RemoveBlockFromKv(hash) ==
    /\ blocks' = blocks \ {hash}
    /\ col_blocks' = MapDel(col_blocks, << hash >>)
    /\ bdm_call' = Call("remove_block_from_kv", hash, None, << >>, None)
    /\ UNCHANGED << trieVars, receiptsVars, invalid_block_set, invalidated,
                    concVars, extVars >>

InsertBlockStatusToDb(block_hash, status) ==
    /\ col_blocks' = insert_block_status_to_db(col_blocks, block_hash, status)
    /\ bdm_call' = Call("insert_block_status_to_db", block_hash, None, << >>,
                        status)
    /\ UNCHANGED << trieVars, receiptsVars, blocks, invalid_block_set,
                    invalidated, concVars, extVars >>

InvalidateBlock(block_hash) ==
    /\ \E r \in {invalidate_block(invalid_block_set, col_blocks,
                                  block_hash)} :
           /\ col_blocks' = r.col_blocks
           /\ invalid_block_set' = r.invalid_block_set
    /\ invalidated' = invalidated \cup {block_hash}
    /\ bdm_call' = Call("invalidate_block", block_hash, None, << >>, None)
    /\ UNCHANGED << trieVars, receiptsVars, blocks, concVars, extVars >>

VerifiedInvalid(block_hash) ==
    /\ \E r \in {verified_invalid(invalid_block_set, col_blocks,
                                  block_hash)} :
           /\ invalid_block_set' = r.invalid_block_set
           /\ bdm_call' = Call("verified_invalid", block_hash, None, << >>,
                               r.ret)
    /\ UNCHANGED << trieVars, receiptsVars, blocks, col_blocks, invalidated,
                    concVars, extVars >>


(***************************************************************************)
(* The receipts operations step by step, for threads that run them at the  *)
(* same time.  block_receipts is a RwLock: a read takes it when no writer  *)
(* holds it, a writer holds it from write() to the end of the statement or *)
(* of the function.                                                        *)
(***************************************************************************)
\* the threads work on the receipts of one block
ContendedHashes == {MinOf(Hashes)}

seqVars == << blocks, col_blocks, invalid_block_set, bdm_call, persisted,
              invalidated, extVars >>

\* insert_block_results_to_kv up to the write of the row
InsertKvWrite(t, hash, epoch, receipts, persistent) ==
    /\ threads[t] = Idle
    /\ \E bloom \in {fold_log_blooms({}, receipts)} :
           /\ col_block_receipts' =
                  IF persistent
                  THEN MapPut(col_block_receipts, hash,
                              rlp_block_receipts(epoch, receipts, bloom))
                  ELSE col_block_receipts
           /\ threads' = [threads EXCEPT ![t] =
                  [pc |-> "insert_lock", hash |-> hash, epoch |-> epoch,
                   result |-> BlockExecutedResult(receipts, bloom),
                   persistent |-> persistent]]
    /\ UNCHANGED << trieVars, seqVars, block_receipts, receipts_lock >>

\* let mut block_receipts = self.block_receipts.write()
InsertLock(t) ==
    /\ threads[t].pc = "insert_lock"
    /\ receipts_lock = {}
    /\ receipts_lock' = {t}
    /\ threads' = [threads EXCEPT ![t].pc = "insert_memory"]
    /\ UNCHANGED << trieVars, seqVars, block_receipts, col_block_receipts >>

\* the entry is inserted and the guard is dropped at the return
InsertMemory(t) ==
    /\ threads[t].pc = "insert_memory"
    /\ block_receipts' =
           entry_insert_receipts(block_receipts, threads[t].hash,
                                 threads[t].epoch, threads[t].result)
    /\ receipts_lock' = receipts_lock \ {t}
    /\ threads' = [threads EXCEPT ![t] = Idle]
    /\ UNCHANGED << trieVars, seqVars, col_block_receipts >>

\* block_results_by_hash_with_epoch: the read of the map under read()
LookupMemory(t, hash, assumed_epoch, update_cache) ==
    /\ threads[t] = Idle
    /\ receipts_lock = {}
    /\ threads' = [threads EXCEPT ![t] =
           IF hash \in DOMAIN block_receipts
              /\ get_receipts_at_epoch(block_receipts[hash],
                                       assumed_epoch).some
           THEN Idle
           ELSE [pc |-> "lookup_db", hash |-> hash,
                 epoch |-> assumed_epoch, update_cache |-> update_cache]]
    /\ UNCHANGED << trieVars, seqVars, block_receipts, col_block_receipts,
                    receipts_lock >>

\* the read of the row and the comparison of its epoch
LookupDb(t) ==
    /\ threads[t].pc = "lookup_db"
    /\ \E r \in {block_results_by_hash_from_db(col_block_receipts,
                                               threads[t].hash)} :
           threads' = [threads EXCEPT ![t] =
               IF r.some /\ r.v[1] = threads[t].epoch
                  /\ threads[t].update_cache
               THEN [pc |-> "lookup_cache", hash |-> threads[t].hash,
                     epoch |-> threads[t].epoch, result |-> r.v[2]]
               ELSE Idle]
    /\ UNCHANGED << trieVars, seqVars, block_receipts, col_block_receipts,
                    receipts_lock >>

\* update_cache: the entry is inserted under write()
LookupCache(t) ==
    /\ threads[t].pc = "lookup_cache"
    /\ receipts_lock = {}
    /\ block_receipts' =
           entry_insert_receipts(block_receipts, threads[t].hash,
                                 threads[t].epoch, threads[t].result)
    /\ threads' = [threads EXCEPT ![t] = Idle]
    /\ UNCHANGED << trieVars, seqVars, col_block_receipts, receipts_lock >>

(***************************************************************************)
(* The specifications: the delta trie, the receipts, the block status, and *)
(* the receipts under concurrent threads.                                  *)
(***************************************************************************)
(***************************************************************************)
(* The log-structured delta db: KvdbLog and its transaction KvdbLogTxn.    *)
(* A thread is outside a transaction ("none"), between the load and the    *)
(* store of start_transaction_dyn ("checked"), or holds a transaction      *)
(* ("open").  A failed assertion unwinds the thread, which drops the       *)
(* transaction it holds.                                                   *)
(***************************************************************************)
MaxLogRows == 2

NoTxn == [pc |-> "none", next_row |-> 0, pending_entries |-> << >>]

\* KvdbLog::new over an empty log
KvdbLog_new ==
    /\ committing = FALSE
    /\ engine = << >>
    /\ kvdb_txn = [t \in Threads |-> NoTxn]

KvdbFrame ==
    UNCHANGED << trieVars, bdmVars, indexVars, codec, row_limit, unitVars >>

\* start_transaction_dyn up to its assertions: the load of the flag
KvdbStartLoad(t, immediate_write) ==
    /\ kvdb_txn[t].pc = "none"
    /\ kvdb_txn' =
           [kvdb_txn EXCEPT ![t].pc =
               IF committing = FALSE /\ immediate_write = TRUE
               THEN "checked" ELSE "none"]
    /\ UNCHANGED << committing, engine >>
    /\ KvdbFrame

\* start_transaction_dyn from the store of the flag on
KvdbStartStore(t) ==
    /\ kvdb_txn[t].pc = "checked"
    /\ committing' = TRUE
    /\ kvdb_txn' = [kvdb_txn EXCEPT ![t] =
                       [pc |-> "open", next_row |-> Len(engine),
                        pending_entries |-> << >>]]
    /\ UNCHANGED engine
    /\ KvdbFrame

\* KvdbLogTxn::put_with_number_key; on a wrong key the assertion fails and
\* the transaction is dropped
KvdbPutWithNumberKey(t, key) ==
    /\ kvdb_txn[t].pc = "open"
    /\ kvdb_txn[t].next_row < MaxLogRows
    /\ IF kvdb_txn[t].next_row = key
       THEN /\ kvdb_txn' =
                   [kvdb_txn EXCEPT ![t].pending_entries =
                                        Append(@, [thread |-> t,
                                                   key |-> key]),
                                    ![t].next_row = @ + 1]
            /\ UNCHANGED committing
       ELSE /\ kvdb_txn' = [kvdb_txn EXCEPT ![t] = NoTxn]
            /\ committing' = FALSE
    /\ UNCHANGED engine
    /\ KvdbFrame

\* KvdbLogTxn::commit: the pending entries are drained into the log
KvdbCommit(t) ==
    /\ kvdb_txn[t].pc = "open"
    /\ Len(engine) + Len(kvdb_txn[t].pending_entries) <= MaxLogRows
    /\ engine' = engine \o kvdb_txn[t].pending_entries
    /\ kvdb_txn' = [kvdb_txn EXCEPT ![t].pending_entries = << >>]
    /\ UNCHANGED committing
    /\ KvdbFrame

\* KvdbLogTxn::revert
KvdbRevert(t) ==
    /\ kvdb_txn[t].pc = "open"
    /\ kvdb_txn' = [kvdb_txn EXCEPT ![t].pending_entries = << >>]
    /\ UNCHANGED << committing, engine >>
    /\ KvdbFrame

\* KvdbLogTxn::restart: a revert unless no_revert; the assertion on
\* immediate_write fails otherwise and the transaction is dropped
KvdbRestart(t, immediate_write, no_revert) ==
    /\ kvdb_txn[t].pc = "open"
    /\ IF immediate_write = TRUE
       THEN /\ kvdb_txn' = [kvdb_txn EXCEPT ![t].pending_entries =
                                IF no_revert THEN @ ELSE << >>]
            /\ UNCHANGED committing
       ELSE /\ kvdb_txn' = [kvdb_txn EXCEPT ![t] = NoTxn]
            /\ committing' = FALSE
    /\ UNCHANGED engine
    /\ KvdbFrame

\* Drop for KvdbLogTxn
KvdbDrop(t) ==
    /\ kvdb_txn[t].pc = "open"
    /\ committing' = FALSE
    /\ kvdb_txn' = [kvdb_txn EXCEPT ![t] = NoTxn]
    /\ UNCHANGED engine
    /\ KvdbFrame

NextKvdb ==
    \/ \E t \in Threads, w \in BOOLEAN : KvdbStartLoad(t, w)
    \/ \E t \in Threads : KvdbStartStore(t)
    \/ \E t \in Threads, k \in 0 .. MaxLogRows : KvdbPutWithNumberKey(t, k)
    \/ \E t \in Threads : KvdbCommit(t)
    \/ \E t \in Threads : KvdbRevert(t)
    \/ \E t \in Threads, w \in BOOLEAN, n \in BOOLEAN : KvdbRestart(t, w, n)
    \/ \E t \in Threads : KvdbDrop(t)

(***************************************************************************)
(* The node reference codec (node_ref.rs) on its own: a reference is       *)
(* packed into the compact word, the word goes to the wire and comes       *)
(* back, and the word is converted back into a reference.                  *)
(***************************************************************************)
\* u32 values at the ends of the two halves of the range
U32Samples == {[t |-> t, l |-> l] : t \in {0, 1}, l \in {0, 1, M31 - 1, M31}}

\* slot indices below 2^31
SlotSamples == {x \in U32Samples : x.t = 0}

WCommitted(k) == [kind |-> "Committed", db_key |-> k]

WDirty(i, o) == [kind |-> "Dirty", index |-> i, original_db_key |-> o]

\* Option<NodeRefDeltaMpt>
CodecInputs ==
    {NoRef} \cup {WCommitted(k) : k \in U32Samples}
        \cup {WDirty(i, o) : i \in SlotSamples, o \in U32Samples \cup {WNone}}

\* impl From<Option<NodeRefDeltaMpt>> for MaybeNodeRefDeltaMptCompact
MaybeCompactFromWide(maybe_node) ==
    IF maybe_node = NoRef THEN NULL_NODE ELSE CompactFromWide(maybe_node)

\* impl From<MaybeNodeRefDeltaMptCompact> for Option<NodeRefDeltaMpt>
WideFromMaybeCompact(x) ==
    IF x = NULL_NODE THEN NoRef ELSE WideFromCompact(x)

CodecStart(x) ==
    [x |-> x, word |-> NULL_NODE, wire |-> U32(0), back |-> NoRef,
     stage |-> "input"]

\* no conversion under way
CodecIdle == codec = CodecStart(NoRef)

CodecFrame ==
    UNCHANGED << trieVars, bdmVars, indexVars, kvdbVars, row_limit, unitVars >>

\* Option<NodeRefDeltaMpt> -> MaybeNodeRefDeltaMptCompact
CodecPack ==
    /\ codec.stage = "input"
    /\ codec' = [codec EXCEPT !.word = MaybeCompactFromWide(codec.x),
                              !.stage = "packed"]
    /\ CodecFrame

\* Encodable for NodeRefDeltaMptCompact: a word that is a reference goes
\* to the wire
CodecEncode ==
    /\ codec.stage = "packed"
    /\ codec.x # NoRef
    /\ codec' = [codec EXCEPT !.wire = rlp_append(codec.word),
                              !.stage = "encoded"]
    /\ CodecFrame

\* Decodable for NodeRefDeltaMptCompact
CodecDecode ==
    /\ codec.stage = "encoded"
    /\ codec' = [codec EXCEPT !.word = decode(codec.wire),
                              !.stage = "decoded"]
    /\ CodecFrame

\* MaybeNodeRefDeltaMptCompact -> Option<NodeRefDeltaMpt>
CodecUnpack ==
    /\ codec.stage = "packed"
    /\ codec' = [codec EXCEPT !.back = WideFromMaybeCompact(codec.word),
                              !.stage = "unpacked"]
    /\ CodecFrame

\* NodeRefDeltaMptCompact -> NodeRefDeltaMpt, for a word from the wire
CodecUnpackDecoded ==
    /\ codec.stage = "decoded"
    /\ codec' = [codec EXCEPT !.back = WideFromCompact(codec.word),
                              !.stage = "converted"]
    /\ CodecFrame

NextCodec ==
    \/ CodecPack
    \/ CodecEncode
    \/ CodecDecode
    \/ CodecUnpack
    \/ CodecUnpackDecoded

vars == << trieVars, bdmVars, extVars >>

DefaultConfig == DataManagerConfiguration_new(TRUE, TRUE)

Init ==
    /\ TrieInit
    /\ row_limit = MaxRow
    /\ KvdbLog_new /\ UnitIdle
    /\ CodecIdle
    /\ BdmInit
    /\ IndexInit(DefaultConfig, NoCacheManager)

SpecKvdb == Init /\ [][NextKvdb]_vars

\* the codec on any optional node reference
InitCodec ==
    /\ TrieInit
    /\ row_limit = MaxRow
    /\ KvdbLog_new /\ UnitIdle
    /\ BdmInit
    /\ IndexInit(DefaultConfig, NoCacheManager)
    /\ \E x \in CodecInputs : codec = CodecStart(x)

SpecCodec == InitCodec /\ [][NextCodec]_vars

(***************************************************************************)
(* Write sessions on a root and its children, one after the other, each    *)
(* computing the merkle root and committing; the cache manager may evict   *)
(* committed nodes in between.                                             *)
(***************************************************************************)
MaxMerkleRow == 5

MerkleDbKeys == 0 .. (MaxMerkleRow - 1)

InitMerkle ==
    /\ TrieInit
    /\ row_limit = MaxMerkleRow
    /\ KvdbLog_new /\ UnitIdle
    /\ CodecIdle
    /\ BdmInit
    /\ IndexInit(DefaultConfig, NoCacheManager)

NextMerkle ==
    \/ \E v \in Values : Set_NewRoot(v)
    \/ \E i \in ChildIdx, v \in Values : Set_NewLeaf(<< >>, i, v)
    \/ \E v \in Values : Set_Replace(<< >>, v)
    \/ ComputeMerkle({})
    \/ CommitDirty
    \/ TxnCommit
    \/ \E k \in MerkleDbKeys : Evict(k)

SpecMerkle == InitMerkle /\ [][NextMerkle]_vars

Next == TrieNext

Spec == Init /\ [][Next]_vars

NextReceipts ==
    \/ \E h \in Hashes, e \in Epochs, rs \in ReceiptLists, p \in BOOLEAN :
           InsertBlockResultsToKv(h, e, rs, p)
    \/ \E h \in Hashes, e \in Epochs, u \in BOOLEAN :
           BlockResultsByHashWithEpoch(h, e, u)
    \/ \E h \in Hashes, e \in Epochs : ReceiptsRetainEpoch(h, e)
    \/ \E ids \in SUBSET CacheIds : BlockCacheGc(ids)
    \/ Restart

SpecReceipts == Init /\ [][NextReceipts]_vars

NextStatus ==
    \/ \E h \in Hashes, p \in BOOLEAN : InsertBlockToKv(h, p)
    \/ \E h \in Hashes : RemoveBlockFromKv(h)
    \/ \E h \in Hashes, status \in BlockStatus :
           InsertBlockStatusToDb(h, status)
    \/ \E h \in Hashes : InvalidateBlock(h)
    \/ \E h \in Hashes : VerifiedInvalid(h)
    \/ \E ids \in SUBSET CacheIds : BlockCacheGc(ids)
    \/ Restart

SpecStatus == Init /\ [][NextStatus]_vars

NextConc ==
    \/ \E t \in Threads, h \in ContendedHashes, e \in Epochs,
          rs \in ReceiptLists, p \in BOOLEAN :
           InsertKvWrite(t, h, e, rs, p)
    \/ \E t \in Threads : InsertLock(t)
    \/ \E t \in Threads : InsertMemory(t)
    \/ \E t \in Threads, h \in ContendedHashes, e \in Epochs,
          u \in BOOLEAN :
           LookupMemory(t, h, e, u)
    \/ \E t \in Threads : LookupDb(t)
    \/ \E t \in Threads : LookupCache(t)

SpecConc == Init /\ [][NextConc]_vars


(***************************************************************************)
(* The calls of the data manager that go through Self.  A call that fails  *)
(* an expect or unwrap ends the process: the columns keep what was written *)
(* and the next state is that of BlockDataManager::new on them.            *)
(***************************************************************************)
CallNoted(op, hash, epoch, args, ret, d) ==
    [op |-> op, hash |-> hash, epoch |-> epoch, receipts |-> args,
     ret |-> ret, noted |-> d.noted, tx_puts |-> d.tx_puts,
     panic |-> d.panic]

Returned(d, call) ==
    /\ \E r \in {IF d.panic THEN BlockDataManager_new(d) ELSE d} :
           /\ block_headers' = r.block_headers
           /\ blocks' = r.blocks
           /\ compact_blocks' = r.compact_blocks
           /\ block_receipts' = r.block_receipts
           /\ transaction_addresses' = r.transaction_addresses
           /\ transaction_pubkey_cache' = r.transaction_pubkey_cache
           /\ block_receipts_root' = r.block_receipts_root
           /\ col_blocks' = r.col_blocks
           /\ col_block_receipts' = r.col_block_receipts
           /\ col_tx_address' = r.col_tx_address
           /\ cache_man' = r.cache_man
           /\ config' = r.config
    /\ invalid_block_set' = IF d.panic THEN {} ELSE invalid_block_set
    /\ bdm_call' = call
    /\ UNCHANGED << trieVars, invalidated, concVars, kvdbVars, codec,
                    row_limit, unitVars >>

BdmInsertBlockToKv(hash, persistent) ==
    /\ \E d \in {insert_block_to_kv_cm(Self, hash, persistent)} :
           Returned(d, CallNoted("insert_block_to_kv", hash, None,
                                 persistent, None, d))
    /\ UNCHANGED persisted

BdmRemoveBlockFromKv(hash) ==
    /\ \E d \in {remove_block_from_kv(Self, hash)} :
           Returned(d, CallNoted("remove_block_from_kv", hash, None, << >>,
                                 None, d))
    /\ UNCHANGED persisted

BdmBlockByHash(hash, update_cache) ==
    /\ \E r \in {block_by_hash(Self, hash, update_cache)} :
           Returned(r.d, CallNoted("block_by_hash", hash, None, update_cache,
                                   r.ret, r.d))
    /\ UNCHANGED persisted

BdmBlockHeaderByHash(hash) ==
    /\ \E r \in {block_header_by_hash(Self, hash)} :
           Returned(r.d, CallNoted("block_header_by_hash", hash, None, << >>,
                                   r.ret, r.d))
    /\ UNCHANGED persisted

BdmInsertBlockHeader(hash) ==
    /\ \E d \in {insert_block_header(Self, hash)} :
           Returned(d, CallNoted("insert_block_header", hash, None, << >>,
                                 None, d))
    /\ UNCHANGED persisted

BdmRemoveBlockHeader(hash) ==
    /\ \E d \in {remove_block_header(Self, hash)} :
           Returned(d, CallNoted("remove_block_header", hash, None, << >>,
                                 None, d))
    /\ UNCHANGED persisted

\* the receipts are those the execution of the block in the epoch gave
BdmInsertBlockResultsToKv(hash, epoch, persistent) ==
    /\ \E d \in {insert_block_results_to_kv_cm(
                     Self, hash, epoch, ExecutedReceipts(hash, epoch),
                     persistent)} :
           Returned(d, CallNoted("insert_block_results_to_kv", hash, epoch,
                                 ExecutedReceipts(hash, epoch), None, d))
    /\ persisted' = IF persistent
                    THEN [persisted EXCEPT ![hash] = @ \cup {epoch}]
                    ELSE persisted

BdmBlockResultsByHashWithEpoch(hash, assumed_epoch, update_cache) ==
    /\ \E r \in {block_results_by_hash_with_epoch_cm(
                     Self, hash, assumed_epoch, update_cache)} :
           Returned(r.d, CallNoted("block_results_by_hash_with_epoch", hash,
                                   assumed_epoch, update_cache, r.ret, r.d))
    /\ UNCHANGED persisted

BdmTransactionAddressByHash(hash, update_cache) ==
    /\ \E r \in {transaction_address_by_hash(Self, hash, update_cache)} :
           Returned(r.d, CallNoted("transaction_address_by_hash", hash, None,
                                   update_cache, r.ret, r.d))
    /\ UNCHANGED persisted

BdmInsertTransactionAddressToKv(hash, tx_address) ==
    /\ \E d \in {insert_transaction_address_to_kv(Self, hash, tx_address)} :
           Returned(d, CallNoted("insert_transaction_address_to_kv", hash,
                                 None, tx_address, None, d))
    /\ UNCHANGED persisted

BdmEpochExecutedAndRecovered(epoch_hash, epoch_block_hashes, on_local_pivot, contains_state) ==
    /\ \E r \in {epoch_executed_and_recovered(
                     Self, epoch_hash, epoch_block_hashes, on_local_pivot,
                     contains_state)} :
           Returned(r.d, CallNoted("epoch_executed_and_recovered",
                                   epoch_block_hashes, epoch_hash,
                                   on_local_pivot, r.ret, r.d))
    /\ UNCHANGED persisted

\* the lists of blocks of an epoch: the blocks from one hash on
EpochBlockLists ==
    {[i \in 1 .. (MaxHash + 1 - h) |-> h + i - 1] : h \in Hashes}

\* the places of a transaction in the blocks
TxAddresses(hash) ==
    {TransactionAddress(h, i - 1) : h \in Hashes, i \in 1 .. MaxTx}
    \cap {a \in [block_hash : Hashes, index : 0 .. (MaxTx - 1)] :
              /\ a.index < Len(Transactions(a.block_hash))
              /\ Transactions(a.block_hash)[a.index + 1] = hash}

InitTx ==
    /\ TrieInit /\ row_limit = MaxRow
    /\ KvdbLog_new /\ UnitIdle /\ CodecIdle /\ BdmInit
    /\ \E c \in Configs : IndexInit(c, NoCacheManager)

\* the executed results are inserted persistently, and the receipts root of
\* an epoch other than genesis is not known
NextTx ==
    \/ \E h \in Hashes, p \in BOOLEAN : BdmInsertBlockToKv(h, p)
    \/ \E h \in Hashes, e \in Epochs :
           BdmInsertBlockResultsToKv(h, e, TRUE)
    \/ \E e \in Epochs, q \in EpochBlockLists, p \in BOOLEAN, c \in BOOLEAN :
           BdmEpochExecutedAndRecovered(e, q, p, c)
    \/ \E t \in TxHashes, u \in BOOLEAN : BdmTransactionAddressByHash(t, u)
    \/ \E t \in TxHashes : \E a \in TxAddresses(t) :
           BdmInsertTransactionAddressToKv(t, a)

SpecTx == InitTx /\ [][NextTx]_vars


(***************************************************************************)
(* The lookups of the data manager with the cache manager followed: the    *)
(* process starts with an empty cache manager and any configuration.       *)
(***************************************************************************)
InitLookup ==
    /\ TrieInit /\ row_limit = MaxRow
    /\ KvdbLog_new /\ UnitIdle /\ CodecIdle /\ BdmInit
    /\ \E c \in Configs : IndexInit(c, EmptyCacheManager)

\* the block the lookups are about, its transaction and the epoch it is
\* executed in
LookupHash == MaxHash
LookupTx == Transactions(LookupHash)[1]
LookupEpoch == MaxEpoch

NextLookup ==
    \/ \E p \in BOOLEAN : BdmInsertBlockToKv(LookupHash, p)
    \/ BdmRemoveBlockFromKv(LookupHash)
    \/ BdmInsertBlockHeader(LookupHash)
    \/ BdmRemoveBlockHeader(LookupHash)
    \/ BdmBlockHeaderByHash(LookupHash)
    \/ \E u \in BOOLEAN : BdmBlockByHash(LookupHash, u)
    \/ \E p \in BOOLEAN :
           BdmInsertBlockResultsToKv(LookupHash, LookupEpoch, p)
    \/ \E e \in Epochs, u \in BOOLEAN :
           BdmBlockResultsByHashWithEpoch(LookupHash, e, u)
    \/ BdmInsertTransactionAddressToKv(LookupTx,
                                       TransactionAddress(LookupHash, 1))
    \/ \E u \in BOOLEAN : BdmTransactionAddressByHash(LookupTx, u)

SpecLookup == InitLookup /\ [][NextLookup]_vars


(***************************************************************************)
(* The six caches and their collection: the header, the block, the         *)
(* compact block, the receipts, the transaction address and the public     *)
(* key of one block, next to the header and the block of genesis.          *)
(***************************************************************************)
BdmInsertCompactBlock(hash) ==
    /\ \E d \in {insert_compact_block(Self, hash)} :
           Returned(d, CallNoted("insert_compact_block", hash, None, << >>,
                                 None, d))
    /\ UNCHANGED persisted

BdmCacheTransaction(tx_hash) ==
    /\ \E d \in {cache_transaction(Self, tx_hash)} :
           Returned(d, CallNoted("cache_transaction", tx_hash, None, << >>,
                                 None, d))
    /\ UNCHANGED persisted

\* the call record holds the size before the collection and the ids
\* evicted, in order
BdmBlockCacheGc ==
    /\ \E r \in {block_cache_gc(Self)} :
           Returned(r.d, CallNoted("block_cache_gc", None,
                                   cache_size_total(Self), r.evicted,
                                   cache_size_total(r.d), r.d))
    /\ UNCHANGED persisted

NextGc ==
    \/ BdmInsertBlockHeader(LookupHash)
    \/ BdmInsertBlockToKv(LookupHash, TRUE)
    \/ BdmBlockByHash(LookupHash, TRUE)
    \/ BdmInsertCompactBlock(LookupHash)
    \/ BdmCacheTransaction(LookupTx)
    \/ BdmInsertBlockResultsToKv(LookupHash, LookupEpoch, TRUE)
    \/ BdmInsertTransactionAddressToKv(LookupTx,
                                       TransactionAddress(LookupHash, 1))
    \/ BdmTransactionAddressByHash(LookupTx, TRUE)
    \/ BdmBlockCacheGc

\* transaction addresses are recorded; headers are persisted or not
InitGc ==
    /\ TrieInit
    /\ row_limit = MaxRow
    /\ KvdbLog_new /\ UnitIdle
    /\ CodecIdle
    /\ BdmInit
    /\ \E p \in BOOLEAN :
           IndexInit(DataManagerConfiguration_new(TRUE, p), EmptyCacheManager)

SpecGc == InitGc /\ [][NextGc]_vars

(***************************************************************************)
(* Properties of the block data manager.                                   *)
(***************************************************************************)
\* the results the in-memory map holds for a block under an epoch
MemoryResults(mem, h, e) ==
    IF h \in DOMAIN mem
    THEN {mem[h][i][2] : i \in {j \in 1 .. Len(mem[h]) : mem[h][j][1] = e}}
    ELSE {}

\* the results the BLOCK_RECEIPTS row holds for a block under an epoch
RowResults(col, h, e) ==
    IF h \in DOMAIN col /\ col[h][1] = e
    THEN {[receipts |-> col[h][2], bloom |-> col[h][3]]}
    ELSE {}

\* what a lookup that leaves the cache alone returns
Lookup(mem, col, h, e) ==
    block_results_by_hash_with_epoch(mem, col, h, e, FALSE).ret

\* the receipts with the bitwise or of their log blooms
Expected(rs) ==
    [receipts |-> rs,
     bloom |-> UNION {rs[i].log_bloom : i \in 1 .. Len(rs)}]

\* C6: receipt epoch guard.  block_results_by_hash_with_epoch(h, e, _)
\* returns Some only with results stored for h under exactly e, in the
\* in-memory map or in the BLOCK_RECEIPTS row; when nothing is stored under
\* e it returns None and leaves the cache as it is.
C6_ReceiptEpochGuard ==
    [][bdm_call'.op = "block_results_by_hash_with_epoch" =>
          /\ bdm_call'.ret.some =>
                 bdm_call'.ret.v \in
                     MemoryResults(block_receipts, bdm_call'.hash,
                                   bdm_call'.epoch)
                     \cup RowResults(col_block_receipts, bdm_call'.hash,
                                     bdm_call'.epoch)
          /\ (MemoryResults(block_receipts, bdm_call'.hash,
                            bdm_call'.epoch) = {}
              /\ RowResults(col_block_receipts, bdm_call'.hash,
                            bdm_call'.epoch) = {})
                 => (~bdm_call'.ret.some /\ block_receipts' = block_receipts)
      ]_vars

\* a lookup found the row of the block under another epoch only
C6_Witness ==
    /\ bdm_call.op = "block_results_by_hash_with_epoch"
    /\ bdm_call.ret = NoResult
    /\ bdm_call.hash \in DOMAIN col_block_receipts
    /\ col_block_receipts[bdm_call.hash][1] # bdm_call.epoch
    /\ MemoryResults(block_receipts, bdm_call.hash, bdm_call.epoch) = {}

\* C7 as stated: for a block whose results were inserted persistently under
\* several epochs, after receipts_retain_epoch(h, e) has returned true the
\* lookup returns None for every epoch other than e, and results for e.
C7_RetainEpochAsStated ==
    (/\ bdm_call.op = "receipts_retain_epoch"
     /\ bdm_call.ret = TRUE
     /\ Cardinality(persisted[bdm_call.hash]) >= 2)
    => /\ \A e \in Epochs \ {bdm_call.epoch} :
              Lookup(block_receipts, col_block_receipts, bdm_call.hash, e)
                  = NoResult
       /\ bdm_call.epoch \in persisted[bdm_call.hash] =>
              Lookup(block_receipts, col_block_receipts, bdm_call.hash,
                     bdm_call.epoch).some

\* C7: after receipts_retain_epoch(h, e) has returned true the in-memory map
\* holds results of h under e only, the lookup for e returns what it did
\* before the call, and the lookup for another epoch returns None unless the
\* BLOCK_RECEIPTS row of h is stored under that epoch, which it then returns.
C7_RetainEpoch ==
    [][(bdm_call'.op = "receipts_retain_epoch" /\ bdm_call'.ret = TRUE) =>
          /\ \A e \in Epochs \ {bdm_call'.epoch} :
                 /\ MemoryResults(block_receipts', bdm_call'.hash, e) = {}
                 /\ \A r \in RowResults(col_block_receipts', bdm_call'.hash,
                                        e) :
                        Lookup(block_receipts', col_block_receipts',
                               bdm_call'.hash, e) = Some(r)
                 /\ RowResults(col_block_receipts', bdm_call'.hash, e) = {}
                        => Lookup(block_receipts', col_block_receipts',
                                  bdm_call'.hash, e) = NoResult
          /\ Lookup(block_receipts', col_block_receipts', bdm_call'.hash,
                    bdm_call'.epoch)
                 = Lookup(block_receipts, col_block_receipts, bdm_call'.hash,
                          bdm_call'.epoch)
      ]_vars

\* results were inserted persistently under two epochs and the one inserted
\* last was retained: the lookup finds that epoch only
C7_Witness ==
    /\ bdm_call.op = "receipts_retain_epoch"
    /\ bdm_call.ret = TRUE
    /\ Cardinality(persisted[bdm_call.hash]) >= 2
    /\ Lookup(block_receipts, col_block_receipts, bdm_call.hash,
              bdm_call.epoch).some
    /\ \A e \in Epochs \ {bdm_call.epoch} :
           Lookup(block_receipts, col_block_receipts, bdm_call.hash, e)
               = NoResult

\* C8 as stated: after insert_block_results_to_kv(h, e, rs, _) the lookup
\* for (h, e) returns rs with the or of its log blooms, whatever was
\* inserted for h before.
C8_ReadYourWritesAsStated ==
    bdm_call.op = "insert_block_results_to_kv" =>
        Lookup(block_receipts, col_block_receipts, bdm_call.hash,
               bdm_call.epoch) = Some(Expected(bdm_call.receipts))

\* C8: after insert_block_results_to_kv(h, e, rs, _) the lookup for (h, e)
\* returns rs with the bitwise or of the log blooms of rs (zero for the
\* empty list), whatever was inserted for h under other epochs, provided the
\* in-memory map held no other results for h under e at the call.
C8_ReadYourWrites ==
    [][(/\ bdm_call'.op = "insert_block_results_to_kv"
        /\ MemoryResults(block_receipts, bdm_call'.hash, bdm_call'.epoch)
               \subseteq {Expected(bdm_call'.receipts)})
          => Lookup(block_receipts', col_block_receipts', bdm_call'.hash,
                    bdm_call'.epoch) = Some(Expected(bdm_call'.receipts))
      ]_vars

\* receipts with two log blooms were inserted for a block that had results
\* under another epoch, and the lookup returns them
C8_Witness ==
    /\ bdm_call.op = "insert_block_results_to_kv"
    /\ Len(bdm_call.receipts) = 2
    /\ Len(block_receipts[bdm_call.hash]) = 2
    /\ block_receipts[bdm_call.hash][2][1] = bdm_call.epoch
    /\ Lookup(block_receipts, col_block_receipts, bdm_call.hash,
              bdm_call.epoch) = Some(Expected(bdm_call.receipts))

\* C9: whenever the block_receipts lock is free for a reader, a persistent
\* insert_block_results_to_kv that has written its BLOCK_RECEIPTS row has
\* also made its in-memory entry: a reader sees both effects or neither.
C9_BothOrNeither ==
    receipts_lock = {} =>
        \A t \in Threads :
            (/\ threads[t].pc \in {"insert_lock", "insert_memory"}
             /\ threads[t].persistent)
            => MemoryResults(block_receipts, threads[t].hash,
                             threads[t].epoch) # {}

\* C10: Invalid is terminal.  Once invalidate_block(h) has completed,
\* verified_invalid(h) returns true in every later state.
C10_InvalidTerminal ==
    \A h \in invalidated :
        verified_invalid(invalid_block_set, col_blocks, h).ret

C12_InvalidIdempotent ==
    bdm_call.op = "invalidate_block" =>
        /\ invalidate_block(invalid_block_set, col_blocks, bdm_call.hash)
               = [col_blocks |-> col_blocks,
                  invalid_block_set |-> invalid_block_set]
        /\ bdm_call.hash \in invalid_block_set
        /\ col_blocks[block_status_key(bdm_call.hash)]
               = to_db_status("Invalid")
        /\ Cardinality({k \in DOMAIN col_blocks :
                            Len(k) = 2 /\ k[1] = bdm_call.hash
                            /\ k[2] = BLOCK_STATUS_SUFFIX_BYTE}) = 1

\* a block that had another status was invalidated, after another block
C12_Witness ==
    /\ bdm_call.op = "invalidate_block"
    /\ invalid_block_set = Hashes
    /\ \A h \in Hashes :
           col_blocks[block_status_key(h)] = to_db_status("Invalid")

\* the call has put an address for the transaction t into the TX_ADDRESS
\* column or into the in-memory map
RecordedTxAddress(t) ==
    \/ \E n \in 1 .. Len(bdm_call'.tx_puts) : bdm_call'.tx_puts[n] = t
    \/ /\ t \in DOMAIN col_tx_address'
       /\ t \in DOMAIN col_tx_address => col_tx_address'[t] # col_tx_address[t]
    \/ /\ t \in DOMAIN transaction_addresses'
       /\ t \in DOMAIN transaction_addresses =>
              transaction_addresses'[t] # transaction_addresses[t]

\* C13: transaction-address indexing.  insert_transaction_address_to_kv
\* changes neither the TX_ADDRESS column nor the in-memory map when
\* record_tx_address is off; epoch_executed_and_recovered records an address
\* for a transaction only if record_tx_address is on, on_local_pivot is
\* true, every block of the epoch has results stored under that epoch, and
\* the receipt of the transaction in one of these blocks has the outcome
\* success, the address being that block and index.
C13_TxAddressIndexing ==
    [][/\ (bdm_call'.op = "insert_transaction_address_to_kv"
              /\ ~config.record_tx_address) =>
              /\ col_tx_address' = col_tx_address
              /\ transaction_addresses' = transaction_addresses
       /\ bdm_call'.op = "epoch_executed_and_recovered" =>
              \A t \in TxHashes :
                  RecordedTxAddress(t) =>
                      /\ config.record_tx_address
                      /\ bdm_call'.receipts = TRUE
                      /\ \A i \in 1 .. Len(bdm_call'.hash) :
                             Lookup(block_receipts, col_block_receipts,
                                    bdm_call'.hash[i], bdm_call'.epoch).some
                      /\ \E i \in 1 .. Len(bdm_call'.hash) :
                             \E j \in 1 .. Len(Transactions(
                                                   bdm_call'.hash[i])) :
                                 /\ Transactions(bdm_call'.hash[i])[j] = t
                                 /\ Lookup(block_receipts,
                                           col_block_receipts,
                                           bdm_call'.hash[i],
                                           bdm_call'.epoch)
                                        .v.receipts[j].outcome_status
                                        = TRANSACTION_OUTCOME_SUCCESS
                                 /\ col_tx_address'[t]
                                        = rlp_tx_address(TransactionAddress(
                                              bdm_call'.hash[i], j - 1))
      ]_vars

\* the check of an epoch of two blocks has recorded the address of the
\* transaction that succeeded and none for the one that failed
C13_Witness ==
    /\ bdm_call.op = "epoch_executed_and_recovered"
    /\ bdm_call.ret = TRUE /\ ~bdm_call.panic
    /\ Len(bdm_call.hash) = 2
    /\ Len(bdm_call.tx_puts) = 1
    /\ decode_tx_address(col_tx_address[bdm_call.tx_puts[1]]).block_hash
           = bdm_call.hash[1]
    /\ \E i \in 1 .. 2 : \E j \in 1 .. Len(Transactions(bdm_call.hash[i])) :
           Transactions(bdm_call.hash[i])[j] \notin DOMAIN col_tx_address

\* the six cache maps of the data manager
CacheMaps ==
    << block_headers, blocks, compact_blocks, block_receipts,
       transaction_addresses, transaction_pubkey_cache >>

\* C14: a lookup called with update_cache = false (block_by_hash,
\* block_results_by_hash_with_epoch, transaction_address_by_hash) leaves
\* every in-memory cache map unchanged and makes no note_used call on the
\* cache manager, whether the value was found in memory, in the db or not
\* at all.
C14_LookupFrame ==
    [][(/\ bdm_call'.op \in {"block_by_hash",
                             "block_results_by_hash_with_epoch",
                             "transaction_address_by_hash"}
        /\ bdm_call'.receipts = FALSE)
       => /\ CacheMaps' = CacheMaps
          /\ bdm_call'.noted = << >>
          /\ cache_man' = cache_man]_vars

\* C15: whenever block_cache_gc is run with the six caches filled beyond
\* the high-water mark, on return the total measured size of the six cache
\* maps is at most the low-water mark, and every id evicted was less
\* recently note_used than every id that survives.
C15_CacheGcBound ==
    [][(bdm_call'.op = "block_cache_gc" /\ bdm_call'.epoch > HighWaterMark)
       => /\ cache_size_total(Self') <= LowWaterMark
          /\ \E n \in 0 .. Len(cache_man) :
                 /\ bdm_call'.receipts = SubSeq(cache_man, 1, n)
                 /\ cache_man' = SubSeq(cache_man, n + 1, Len(cache_man))]_vars

\* the threads that hold a KvdbLogTxn
OpenTxns == {t \in Threads : kvdb_txn[t].pc = "open"}

\* C16: at any time at most one KvdbLogTxn is open per KvdbLog, under any
\* interleaving of threads calling start_transaction_dyn; a start attempted
\* while a transaction is open fails its assertion, and a new transaction
\* can be started once the previous one has been dropped.
C16_SingleWriter == Cardinality(OpenTxns) <= 1

\* C17: for every optional node ref x (None, Committed for any 32-bit
\* db_key, Dirty for any slot index below 2^31 and any optional 32-bit
\* original key), converting x to MaybeNodeRefDeltaMptCompact and back
\* yields x; no node ref converts to the NULL word, and is_dirty and
\* is_committed of the compact word agree with the variant packed.
C17_CodecRoundTrip ==
    /\ codec.stage = "unpacked" => codec.back = codec.x
    /\ (codec.stage = "packed" /\ codec.x # NoRef) =>
           /\ codec.word # NULL_NODE
           /\ is_dirty(codec.word) = (codec.x.kind = "Dirty")
           /\ is_committed(codec.word) = (codec.x.kind = "Committed")

\* C18: for every 32-bit db_key, encoding the compact ref of Committed
\* with that key (only the top 32 bits are emitted) and decoding the
\* result (the bottom 32 bits are zero) yields a compact ref that converts
\* back to Committed with that key.
C18_WireRoundTrip ==
    (codec.stage = "converted" /\ codec.x.kind = "Committed") =>
        codec.back = codec.x

\* the values appended hold each pair of S once and nothing else
ExactlyOnce(values, S) ==
    /\ {values[n] : n \in 1 .. Len(values)} = S
    /\ Len(values) = Cardinality(S)

\* iterate_internal started at the root with the root's path as prefix and
\* no failing load
IterateRoot ==
    LET At(node) ==
            iterate_internal(World, node, node.compressed_path, << >>, {})
    IN  At(get_trie_node(World, root, {}).node)

\* C19: for any trie (nodes owned by the session, committed, or mixed),
\* iterate_internal started at the root with the root's path as prefix
\* appends to values exactly one (key, value) pair for every node that has
\* a value, the key being the concatenation of compressed paths and child
\* indices from the root to the node, and nothing else; it modifies no
\* node, frees no slot and leaves the owner set unchanged.
C19_IterationRoundTrip ==
    (phase = "write" /\ root # NoRef) =>
        \E r \in {IterateRoot} :
            /\ ~r.err
            /\ ~r.w.panic
            /\ ExactlyOnce(r.values, Contents(World, root, << >>))
            /\ r.w.own = owned_node_set
            /\ \A i \in Slots : slab[i] # Vacant => r.w.slab[i] = slab[i]

\* the merkle root get_or_compute_merkle left in the session's root
RootMerkle == get_trie_node(World, root, {}).node.merkle_hash

\* the merkle root stored in the committed root
CommittedRootMerkle == snapshot[committed_root.db_key].merkle_hash

\* C20: two tries holding identical key-value contents yield equal roots
\* from get_or_compute_merkle, whatever the order of insertions and
\* deletions that built them and whichever nodes are owned (recomputed)
\* or committed (stored hash returned): the session's trie after its
\* merkle computation against the committed trie.
C20_MerkleDeterminism ==
    (/\ phase = "computed"
     /\ root # NoRef
     /\ committed_root # NoRef
     /\ Contents(World, root, << >>) = SnapContents(committed_root, << >>))
    => RootMerkle = CommittedRootMerkle

\* the slab slots of the owned nodes of the subtree below ref (the node
\* itself and its owned descendants)
OwnedSubtreeSlots(w, ref) ==
    {NodeSlot(w, Last(RefsAlong(w, ref, p))) :
         p \in {q \in Positions(w, ref) :
                    OwnedContains(w.own, Last(RefsAlong(w, ref, q)))}}

\* delete_subtree on the node at pos while the loads of `bad` fail
DeleteSubtreeAt(pos, bad) ==
    delete_subtree(World,
                   CowNodeRef_new(Last(RefsAlong(World, root, pos)),
                                  owned_node_set),
                   get_trie_node(World, Last(RefsAlong(World, root, pos)),
                                 {}).node,
                   << >>, << >>, bad)

\* C21: delete_subtree always completes the deletion: whether it ends with
\* Ok or with Err, the slab slot of every owned node of the subtree (the
\* node and every owned descendant) has been freed.
C21_DeleteSubtreeCompletes ==
    (phase = "write" /\ root # NoRef) =>
        \A pos \in Positions(World, root) : \A bad \in BadLoads :
            \E r \in {DeleteSubtreeAt(pos, bad)} :
                \A s \in OwnedSubtreeSlots(
                             World, Last(RefsAlong(World, root, pos))) :
                    r.w.slab[s] = Vacant

\* executed results of block_hash exist in the in-memory map or in the
\* BLOCK_RECEIPTS column
ExecutedResultsExist(mem, col, block_hash) ==
    \/ block_hash \in DOMAIN mem /\ mem[block_hash] # << >>
    \/ block_hash \in DOMAIN col

OwnedRefs ==
    {Dirty(i, o) : i \in Slots, o \in {None} \cup DbKeys}
    \cup {Committed(k) : k \in DbKeys}

\* the identity of a reference: the slot of a Dirty one, the db key of a
\* Committed one
Identity(val) ==
    IF val.kind = "Committed" THEN << "Committed", val.db_key >>
    ELSE << "Dirty", val.index >>

OwnedFrame ==
    UNCHANGED << slab, node_ref_map, children_merkle_map, root,
                 committed_root, db_delta_trie, db_children_merkles,
                 row_number, txn, phase, put_log, snapshot, last_op,
                 bdmVars, indexVars, kvdbVars, codec, row_limit,
                 lightVars, bucketVars, txConcVars, lockVars,
                 requestVars >>

OwnedSetInsert(val) ==
    /\ owned_call' = [op |-> "insert", val |-> val,
                      ret |-> OwnedInsertResult(owned_node_set, val),
                      members |-> owned_call.members \cup {Identity(val)}]
    /\ owned_node_set' = OwnedInsert(owned_node_set, val)
    /\ OwnedFrame

OwnedSetRemove(val) ==
    /\ owned_call' = [op |-> "remove", val |-> val,
                      ret |-> OwnedRemoveResult(owned_node_set, val),
                      members |-> owned_call.members \ {Identity(val)}]
    /\ owned_node_set' = OwnedRemove(owned_node_set, val)
    /\ OwnedFrame

OwnedSetContains(val) ==
    /\ owned_call' = [op |-> "contains", val |-> val,
                      ret |-> OwnedContains(owned_node_set, val),
                      members |-> owned_call.members]
    /\ owned_node_set' = owned_node_set
    /\ OwnedFrame

NextOwned ==
    \/ \E val \in OwnedRefs : OwnedSetInsert(val)
    \/ \E val \in OwnedRefs : OwnedSetRemove(val)
    \/ \E val \in OwnedRefs : OwnedSetContains(val)

SpecOwned == Init /\ [][NextOwned]_vars

\* a comes before b in the order of iter
IterBefore(a, b) ==
    \/ a.kind = "Dirty" /\ b.kind = "Committed"
    \/ a.kind = "Dirty" /\ b.kind = "Dirty" /\ a.index < b.index
    \/ a.kind = "Committed" /\ b.kind = "Committed" /\ a.db_key < b.db_key

\* C23: OwnedNodeSet behaves as a mathematical set of node identities (the
\* slot of a Dirty ref, the db key of a Committed ref, the two kinds never
\* aliasing): contains(r) is true iff the last operation on r's identity
\* was an insert, insert returns true iff the identity was absent, remove
\* returns true iff it was present, and iter yields every member exactly
\* once, Dirty refs in ascending slot order, then Committed refs in
\* ascending db-key order.
C23_OwnedNodeSetIsSet ==
    [][/\ owned_call'.op = "insert" =>
              owned_call'.ret
                  = (Identity(owned_call'.val) \notin owned_call.members)
       /\ owned_call'.op = "remove" =>
              owned_call'.ret
                  = (Identity(owned_call'.val) \in owned_call.members)
       /\ owned_call'.op = "contains" =>
              owned_call'.ret
                  = (Identity(owned_call'.val) \in owned_call.members)
       /\ \A val \in OwnedRefs :
              OwnedContains(owned_node_set', val)
                  <=> Identity(val) \in owned_call'.members
       /\ \E it \in {OwnedIter(owned_node_set')} :
              /\ Len(it) = Cardinality(owned_call'.members)
              /\ {Identity(it[i]) : i \in 1 .. Len(it)}
                     = owned_call'.members
              /\ \A i, j \in 1 .. Len(it) :
                     i < j => IterBefore(it[i], it[j])
      ]_vars

\* slot 1 and db key 1 were both inserted and the Dirty one was removed:
\* the Committed one is still a member
C23_Witness ==
    /\ owned_call.op = "remove"
    /\ owned_call.ret = TRUE
    /\ owned_call.val.kind = "Dirty"
    /\ owned_call.val.index = 1
    /\ OwnedContains(owned_node_set, Committed(1))
    /\ ~OwnedContains(owned_node_set, Dirty(1, None))
    /\ Len(OwnedIter(owned_node_set)) >= 2

(***************************************************************************)
(* Light sync: Blooms::receive and Receipts::receive against the trusted   *)
(* root hashes of the witnesses.  keccak and the receipts root are the     *)
(* injective tags of what they hash.                                       *)
(***************************************************************************)
MaxSyncEpoch == 1
MaxBatch == 2

SyncEpochs == 0 .. MaxSyncEpoch

\* the blooms, and the receipts of an epoch, a peer may send
SyncItems == 0 .. 1

keccak(bloom) == << "keccak", bloom >>

compute_block_receipts_root(rs) == << "receipts_root", rs >>

\* the bloom and the receipts the chain has for an epoch
ChainItem(epoch) == epoch

\* Witnesses::root_hashes_of: [some, receipts_root, bloom_hash]
root_hashes_of(w, epoch) ==
    IF epoch \in DOMAIN w
    THEN [some |-> TRUE, receipts_root |-> w[epoch].receipts_root,
          bloom_hash |-> w[epoch].bloom_hash]
    ELSE [some |-> FALSE, receipts_root |-> << >>, bloom_hash |-> << >>]

\* Blooms::validate_bloom: "Ok", "InternalError" or "InvalidBloom"
validate_bloom(w, epoch, bloom) ==
    IF ~root_hashes_of(w, epoch).some THEN "InternalError"
    ELSE IF keccak(bloom) # root_hashes_of(w, epoch).bloom_hash
    THEN "InvalidBloom"
    ELSE "Ok"

\* Receipts::validate_receipts
validate_receipts(w, epoch, rs) ==
    IF ~root_hashes_of(w, epoch).some THEN "InternalError"
    ELSE IF compute_block_receipts_root(rs)
                # root_hashes_of(w, epoch).receipts_root
    THEN "InvalidBloom"
    ELSE "Ok"

\* self.verified.write().insert(epoch, item);
\* self.sync_manager.remove_in_flight(&epoch)
Accepted(self, item) ==
    [verified |-> MapPut(self.verified, item.epoch, item.item),
     in_flight |-> self.in_flight \ {item.epoch}]

RECURSIVE Blooms_receive_unvalidated(_, _, _)
\* a receive that caches an item before it validates it
Blooms_receive_unvalidated(self, w, blooms) ==
    IF blooms = << >> THEN [ret |-> "Ok", self |-> self]
    ELSE IF validate_bloom(w, Head(blooms).epoch, Head(blooms).item) # "Ok"
    THEN [ret |-> validate_bloom(w, Head(blooms).epoch, Head(blooms).item),
          self |-> Accepted(self, Head(blooms))]
    ELSE Blooms_receive_unvalidated(Accepted(self, Head(blooms)), w,
                                    Tail(blooms))

RECURSIVE Blooms_receive(_, _, _)
\* Blooms::receive: [ret, self]
Blooms_receive(self, w, blooms) ==
    IF blooms = << >> THEN [ret |-> "Ok", self |-> self]
    ELSE IF validate_bloom(w, Head(blooms).epoch, Head(blooms).item) # "Ok"
    THEN [ret |-> validate_bloom(w, Head(blooms).epoch, Head(blooms).item),
          self |-> self]
    ELSE Blooms_receive(Accepted(self, Head(blooms)), w, Tail(blooms))

RECURSIVE Receipts_receive(_, _, _)
\* Receipts::receive: [ret, self]
Receipts_receive(self, w, rs) ==
    IF rs = << >> THEN [ret |-> "Ok", self |-> self]
    ELSE IF validate_receipts(w, Head(rs).epoch, Head(rs).item) # "Ok"
    THEN [ret |-> validate_receipts(w, Head(rs).epoch, Head(rs).item),
          self |-> self]
    ELSE Receipts_receive(Accepted(self, Head(rs)), w, Tail(rs))

\* the batches of a response
Batches ==
    UNION {[1 .. n -> [epoch : SyncEpochs, item : SyncItems]] :
               n \in 0 .. MaxBatch}

LightFrame ==
    UNCHANGED << trieVars, bdmVars, indexVars, kvdbVars, codec, row_limit,
                 owned_call, bucketVars, txConcVars, lockVars,
                 requestVars >>

\* the witness of an epoch was verified: its root hashes are trusted
WitnessVerified(epoch) ==
    /\ epoch \notin DOMAIN witnesses
    /\ witnesses' =
           MapPut(witnesses, epoch,
                  [receipts_root |->
                       compute_block_receipts_root(ChainItem(epoch)),
                   bloom_hash |-> keccak(ChainItem(epoch))])
    /\ light_call' = [op |-> "Witnesses::verified", batch |-> << >>,
                      ret |-> "Ok"]
    /\ UNCHANGED << light_blooms, light_receipts >>
    /\ LightFrame

\* Blooms::sync: a request for the bloom of the epoch is in flight
BloomsSync(epoch) ==
    /\ epoch \notin light_blooms.in_flight
    /\ light_blooms' = [light_blooms EXCEPT !.in_flight = @ \cup {epoch}]
    /\ light_call' = [op |-> "Blooms::sync", batch |-> << >>, ret |-> "Ok"]
    /\ UNCHANGED << light_receipts, witnesses >>
    /\ LightFrame

\* Receipts::sync
ReceiptsSync(epoch) ==
    /\ epoch \notin light_receipts.in_flight
    /\ light_receipts' =
           [light_receipts EXCEPT !.in_flight = @ \cup {epoch}]
    /\ light_call' = [op |-> "Receipts::sync", batch |-> << >>, ret |-> "Ok"]
    /\ UNCHANGED << light_blooms, witnesses >>
    /\ LightFrame

BloomsReceive(batch) ==
    /\ \E r \in {Blooms_receive(light_blooms, witnesses, batch)} :
           /\ light_blooms' = r.self
           /\ light_call' = [op |-> "Blooms::receive", batch |-> batch,
                             ret |-> r.ret]
    /\ UNCHANGED << light_receipts, witnesses >>
    /\ LightFrame

ReceiptsReceive(batch) ==
    /\ \E r \in {Receipts_receive(light_receipts, witnesses, batch)} :
           /\ light_receipts' = r.self
           /\ light_call' = [op |-> "Receipts::receive", batch |-> batch,
                             ret |-> r.ret]
    /\ UNCHANGED << light_blooms, witnesses >>
    /\ LightFrame

NextLight ==
    \/ \E epoch \in SyncEpochs : WitnessVerified(epoch)
    \/ \E epoch \in SyncEpochs : BloomsSync(epoch)
    \/ \E epoch \in SyncEpochs : ReceiptsSync(epoch)
    \/ \E batch \in Batches : BloomsReceive(batch)
    \/ \E batch \in Batches : ReceiptsReceive(batch)

SpecLight == Init /\ [][NextLight]_vars

\* the index of the first item of the batch that is not valid, or one past
\* the end of the batch
FirstRejected(batch, Valid(_)) ==
    CHOOSE k \in 1 .. (Len(batch) + 1) :
        /\ \A i \in 1 .. (k - 1) : Valid(batch[i])
        /\ k <= Len(batch) => ~Valid(batch[k])

\* a receive with the result ret took the component from pre to post: the
\* items before the first rejected one are cached, the last of an epoch
\* winning, and their epochs are no longer in flight; nothing else changed
AcceptedPrefix(pre, post, batch, ret, Valid(_)) ==
    \E k \in {FirstRejected(batch, Valid)} :
        /\ ret = IF k > Len(batch) THEN "Ok"
                 ELSE IF batch[k].epoch \notin DOMAIN witnesses
                 THEN "InternalError"
                 ELSE "InvalidBloom"
        /\ \A e \in SyncEpochs :
               \E idx \in {{i \in 1 .. (k - 1) : batch[i].epoch = e}} :
                   IF idx = {}
                   THEN /\ e \in post.in_flight <=> e \in pre.in_flight
                        /\ e \in DOMAIN post.verified
                               <=> e \in DOMAIN pre.verified
                        /\ e \in DOMAIN pre.verified =>
                               post.verified[e] = pre.verified[e]
                   ELSE /\ e \notin post.in_flight
                        /\ e \in DOMAIN post.verified
                        /\ \E i \in idx :
                               /\ \A j \in idx : j <= i
                               /\ post.verified[e] = batch[i].item

\* the bloom hashes to the trusted bloom hash of its epoch
BloomValid(x) ==
    /\ x.epoch \in DOMAIN witnesses
    /\ keccak(x.item) = witnesses[x.epoch].bloom_hash

\* the receipts have the trusted receipts root of their epoch
ReceiptsValid(x) ==
    /\ x.epoch \in DOMAIN witnesses
    /\ compute_block_receipts_root(x.item)
           = witnesses[x.epoch].receipts_root

\* C24: Blooms::receive and Receipts::receive insert an item into the
\* verified cache and remove its epoch from the in-flight set only after
\* the item validated against the trusted witness root of its epoch; on a
\* hash mismatch receive returns InvalidBloom, on a missing witness
\* InternalError, and then the failing item and every later item of the
\* batch are neither cached nor removed from in-flight.
C24_LightSyncAcceptance ==
    [][/\ light_call'.op = "Blooms::receive" =>
              /\ AcceptedPrefix(light_blooms, light_blooms',
                                light_call'.batch, light_call'.ret,
                                BloomValid)
              /\ light_receipts' = light_receipts
       /\ light_call'.op = "Receipts::receive" =>
              /\ AcceptedPrefix(light_receipts, light_receipts',
                                light_call'.batch, light_call'.ret,
                                ReceiptsValid)
              /\ light_blooms' = light_blooms
       /\ \A e \in DOMAIN light_blooms'.verified :
              BloomValid([epoch |-> e, item |-> light_blooms'.verified[e]])
       /\ \A e \in DOMAIN light_receipts'.verified :
              ReceiptsValid([epoch |-> e,
                             item |-> light_receipts'.verified[e]])
      ]_vars

\* a batch of two blooms whose first was accepted and whose second had no
\* witness: the second is still in flight and not cached
C24_Witness ==
    /\ light_call.op = "Blooms::receive"
    /\ light_call.ret = "InternalError"
    /\ Len(light_call.batch) = 2
    /\ light_call.batch[1].epoch \in DOMAIN light_blooms.verified
    /\ light_call.batch[1].epoch \notin light_blooms.in_flight
    /\ light_call.batch[2].epoch \in light_blooms.in_flight
    /\ light_call.batch[2].epoch \notin DOMAIN light_blooms.verified

(***************************************************************************)
(* NodeBucket under any sequence of add, remove and sample_trusted.  A     *)
(* result is 1 for true or Some(id) given in id, 0 for false or None.      *)
(***************************************************************************)
MaxNodeId == 2

NodeIds == 0 .. MaxNodeId

\* a bucket is [trusted_nodes, untrusted_nodes]
Bucket == [trusted_nodes |-> trusted_nodes,
           untrusted_nodes |-> untrusted_nodes]

\* NodeBucket::count
NodeBucket_count(self) ==
    Cardinality(self.trusted_nodes) + Cardinality(self.untrusted_nodes)

\* NodeBucket::contains
NodeBucket_contains(self, id) ==
    id \in self.trusted_nodes \/ id \in self.untrusted_nodes

\* an add that does not look for the id in the bucket first
NodeBucket_add_unchecked(self, id, trusted) ==
    IF trusted
    THEN [ret |-> id \notin self.trusted_nodes,
          self |-> [self EXCEPT !.trusted_nodes = @ \cup {id}]]
    ELSE [ret |-> id \notin self.untrusted_nodes,
          self |-> [self EXCEPT !.untrusted_nodes = @ \cup {id}]]

\* NodeBucket::add: [ret, self]
NodeBucket_add(self, id, trusted) ==
    IF NodeBucket_contains(self, id) THEN [ret |-> FALSE, self |-> self]
    ELSE IF trusted
    THEN [ret |-> id \notin self.trusted_nodes,
          self |-> [self EXCEPT !.trusted_nodes = @ \cup {id}]]
    ELSE [ret |-> id \notin self.untrusted_nodes,
          self |-> [self EXCEPT !.untrusted_nodes = @ \cup {id}]]

\* NodeBucket::remove: the untrusted set is tried only when the trusted
\* set did not hold the id
NodeBucket_remove(self, id) ==
    IF id \in self.trusted_nodes
    THEN [ret |-> TRUE, self |-> [self EXCEPT !.trusted_nodes = @ \ {id}]]
    ELSE [ret |-> id \in self.untrusted_nodes,
          self |-> [self EXCEPT !.untrusted_nodes = @ \ {id}]]

\* NodeBucket::sample_trusted: the ids the random choice may return, None
\* for an empty set
NodeBucket_sample_trusted(self) ==
    IF self.trusted_nodes = {} THEN {None} ELSE self.trusted_nodes

BucketFrame ==
    UNCHANGED << trieVars, bdmVars, indexVars, kvdbVars, codec, row_limit,
                 owned_call, lightVars, txConcVars, lockVars,
                 requestVars >>

BucketAdd(id, trusted) ==
    /\ \E r \in {NodeBucket_add(Bucket, id, trusted)} :
           /\ trusted_nodes' = r.self.trusted_nodes
           /\ untrusted_nodes' = r.self.untrusted_nodes
           /\ bucket_call' = [op |-> "add", id |-> id, trusted |-> trusted,
                              ret |-> IF r.ret THEN 1 ELSE 0]
    /\ BucketFrame

BucketRemove(id) ==
    /\ \E r \in {NodeBucket_remove(Bucket, id)} :
           /\ trusted_nodes' = r.self.trusted_nodes
           /\ untrusted_nodes' = r.self.untrusted_nodes
           /\ bucket_call' = [op |-> "remove", id |-> id, trusted |-> FALSE,
                              ret |-> IF r.ret THEN 1 ELSE 0]
    /\ BucketFrame

BucketSampleTrusted ==
    /\ \E id \in NodeBucket_sample_trusted(Bucket) :
           bucket_call' = [op |-> "sample_trusted", id |-> id,
                           trusted |-> FALSE,
                           ret |-> IF id = None THEN 0 ELSE 1]
    /\ UNCHANGED << trusted_nodes, untrusted_nodes >>
    /\ BucketFrame

NextBucket ==
    \/ \E id \in NodeIds, trusted \in BOOLEAN : BucketAdd(id, trusted)
    \/ \E id \in NodeIds : BucketRemove(id)
    \/ BucketSampleTrusted

SpecBucket == Init /\ [][NextBucket]_vars

\* C25: after any sequence of add and remove no node id is in both the
\* trusted and the untrusted set; add(id, trusted) returns true iff id was
\* in neither set, and then places id only in the set selected by `trusted`
\* and count() grows by one, otherwise it changes nothing; remove(id)
\* returns true iff id was present and then count() shrinks by one;
\* sample_trusted returns only ids of the trusted set and None when that
\* set is empty.
C25_BucketMembership ==
    [][/\ trusted_nodes' \cap untrusted_nodes' = {}
       /\ bucket_call'.op = "add" =>
              /\ bucket_call'.ret = 1
                     <=> bucket_call'.id \notin
                             (trusted_nodes \cup untrusted_nodes)
              /\ bucket_call'.ret = 1 =>
                     /\ trusted_nodes' =
                            IF bucket_call'.trusted
                            THEN trusted_nodes \cup {bucket_call'.id}
                            ELSE trusted_nodes
                     /\ untrusted_nodes' =
                            IF bucket_call'.trusted
                            THEN untrusted_nodes
                            ELSE untrusted_nodes \cup {bucket_call'.id}
                     /\ NodeBucket_count(Bucket')
                            = NodeBucket_count(Bucket) + 1
              /\ bucket_call'.ret = 0 =>
                     UNCHANGED << trusted_nodes, untrusted_nodes >>
       /\ bucket_call'.op = "remove" =>
              /\ bucket_call'.ret = 1
                     <=> bucket_call'.id \in
                             (trusted_nodes \cup untrusted_nodes)
              /\ bucket_call'.id \notin
                     (trusted_nodes' \cup untrusted_nodes')
              /\ bucket_call'.ret = 1 =>
                     NodeBucket_count(Bucket')
                         = NodeBucket_count(Bucket) - 1
              /\ bucket_call'.ret = 0 =>
                     UNCHANGED << trusted_nodes, untrusted_nodes >>
       /\ bucket_call'.op = "sample_trusted" =>
              /\ UNCHANGED << trusted_nodes, untrusted_nodes >>
              /\ bucket_call'.ret = 0 <=> trusted_nodes = {}
              /\ bucket_call'.ret = 1 => bucket_call'.id \in trusted_nodes
      ]_vars

\* an add of an id that is in the untrusted set, as trusted, was refused
\* while the bucket holds trusted and untrusted ids
C25_Witness ==
    /\ bucket_call.op = "add"
    /\ bucket_call.trusted
    /\ bucket_call.ret = 0
    /\ bucket_call.id \in untrusted_nodes
    /\ bucket_call.id \notin trusted_nodes
    /\ trusted_nodes # {}

\* the handle of the node at pos of the session's trie
HandleAt(pos) ==
    CowNodeRef_new(Last(RefsAlong(World, root, pos)), owned_node_set)

\* the node at pos
NodeAt(pos) == get_trie_node(World, Last(RefsAlong(World, root, pos)), {}).node

\* the positions of the nodes with exactly one child
MergePositions ==
    {pos \in Positions(World, root) : get_children_count(NodeAt(pos)) = 1}

\* cow_merge_path on the node at pos and its only child, and the handle it
\* was invoked on afterwards
MergeAt(pos, bad) ==
    cow_merge_path(World, HandleAt(pos), NodeAt(pos),
                   FromCompact(NodeAt(pos).children_table[
                                   OnlyChild(NodeAt(pos))]),
                   OnlyChild(NodeAt(pos)), bad)

MergeSelfAt(pos, bad) ==
    cow_merge_path_self(World, HandleAt(pos), NodeAt(pos),
                        FromCompact(NodeAt(pos).children_table[
                                        OnlyChild(NodeAt(pos))]),
                        OnlyChild(NodeAt(pos)), bad)

\* commit_dirty_recursively on the root of a session whose merkle root is
\* computed
CommitRoot == commit_dirty_recursively(World, HandleAt(<< >>))

InSession == phase \in {"write", "computed"} /\ root # NoRef

Handles ==
    {HandleAt(pos) : pos \in Positions(World, root)}
    \cup {take_self(HandleAt(pos)) : pos \in Positions(World, root)}

\* C27: convert_to_owned on a handle that is not owned allocates a fresh
\* slab slot, sets the handle's ref to Dirty{new slot, original_db_key},
\* original_db_key being the db_key of the prior Committed ref or the
\* original_db_key carried by the prior Dirty ref, inserts that ref into the
\* owner set and sets owned; on a handle that is already owned it changes
\* neither the ref, the owner set nor the slab; if the slot allocation
\* fails, the handle, the owner set and the slab are unchanged.
C27_ConvertToOwned ==
    InSession =>
        \A h \in Handles :
            \E r \in {convert_to_owned(World, h)} :
                /\ r.w.slab = slab
                /\ r.w.cache = node_ref_map
                /\ (h.owned \/ r.err) =>
                       /\ r.h = h
                       /\ r.w.own = owned_node_set
                       /\ r.copied = None
                /\ h.owned => ~r.err
                /\ r.err <=> (~h.owned /\ \A i \in Slots : slab[i] # Vacant)
                /\ (~h.owned /\ ~r.err) =>
                       /\ r.h.owned
                       /\ r.h.node_ref.kind = "Dirty"
                       /\ slab[r.h.node_ref.index] = Vacant
                       /\ r.copied = r.h.node_ref.index
                       /\ r.h.node_ref.original_db_key =
                              IF h.node_ref.kind = "Committed"
                              THEN h.node_ref.db_key
                              ELSE h.node_ref.original_db_key
                       /\ r.w.own.committed = owned_node_set.committed
                       /\ DOMAIN r.w.own.dirty =
                              (DOMAIN owned_node_set.dirty)
                                  \cup {r.h.node_ref.index}
                       /\ r.w.own.dirty[r.h.node_ref.index] =
                              r.h.node_ref.original_db_key
                       /\ \A i \in (DOMAIN owned_node_set.dirty)
                                       \ {r.h.node_ref.index} :
                              r.w.own.dirty[i] = owned_node_set.dirty[i]

\* the root of the session was converted from the committed root (it is
\* Dirty and carries the db key it was committed under) and a child of it
\* is Committed, so that handles of both kinds are converted; and a slot
\* is free
C27_Witness ==
    /\ phase = "write"
    /\ root # NoRef
    /\ root.kind = "Dirty"
    /\ root.original_db_key # None
    /\ OwnedContains(owned_node_set, root)
    /\ \E pos \in Positions(World, root) : ~HandleAt(pos).owned
    /\ \E i \in Slots : slab[i] = Vacant

(***************************************************************************)
(* cow_merge_path on a path node and its only child, which may have a      *)
(* child of its own.  The initial states are the tries of three rows: the  *)
(* parent (row 0), its child (row 1) and a committed leaf (row 2), the     *)
(* parent and the child each owned by the session, committed and cached,   *)
(* or committed and only in the db.                                        *)
(***************************************************************************)
MergeLeaf == TrieNode(<< >>, 1, EmptyChildren, MERKLE_NULL_NODE)

\* the children tables of the child: none, or the leaf at one index
MergeChildTables ==
    {EmptyChildren}
    \cup {[EmptyChildren EXCEPT ![g] = ToCompact(Committed(2))] :
              g \in ChildIdx}

MergeChildren ==
    {TrieNode(path, value, table, MERKLE_NULL_NODE) :
         path \in {<< >>, << 0 >>}, value \in {NoValue} \cup Values,
         table \in MergeChildTables}
    \ {TrieNode(path, NoValue, EmptyChildren, MERKLE_NULL_NODE) :
           path \in {<< >>, << 0 >>}}

\* where a node is: owned by the session, committed and cached, committed
\* and only in the db; a committed parent has a committed child
MergePlaces ==
    {<< "dirty", c >> : c \in {"dirty", "cached", "db"}}
    \cup {<< p, c >> : p \in {"cached", "db"}, c \in {"cached", "db"}}

MergeRef(place, k) == IF place = "dirty" THEN Dirty(k, None) ELSE Committed(k)

MergeParent(path, i, child_ref) ==
    TrieNode(path, NoValue, [EmptyChildren EXCEPT ![i] = ToCompact(child_ref)],
             MERKLE_NULL_NODE)

\* the rows of the committed nodes
MergeRows(places, parent, child) ==
    [k \in {2} \cup (IF places[1] = "dirty" THEN {} ELSE {0})
               \cup (IF places[2] = "dirty" THEN {} ELSE {1}) |->
        rlp_bytes(IF k = 0 THEN parent ELSE IF k = 1 THEN child
                  ELSE MergeLeaf)]

MergeWorld(places, parent, child, leaf_cached) ==
    /\ slab = [s \in Slots |->
                  IF s = 0 /\ places[1] # "db" THEN parent
                  ELSE IF s = 1 /\ places[2] # "db" THEN child
                  ELSE IF s = 2 /\ leaf_cached THEN MergeLeaf
                  ELSE Vacant]
    /\ node_ref_map =
           [k \in (IF places[1] = "cached" THEN {0} ELSE {})
                      \cup (IF places[2] = "cached" THEN {1} ELSE {})
                      \cup (IF leaf_cached THEN {2} ELSE {}) |-> k]
    /\ owned_node_set =
           [dirty |-> [s \in (IF places[1] = "dirty" THEN {0} ELSE {})
                                 \cup (IF places[2] = "dirty" THEN {1}
                                       ELSE {}) |-> None],
            committed |-> {}]
    /\ db_delta_trie = MergeRows(places, parent, child)
    /\ root = MergeRef(places[1], 0)

InitMerge ==
    /\ \E places \in MergePlaces, child \in MergeChildren,
          path \in {<< >>, << 1 >>}, i \in ChildIdx, leaf_cached \in BOOLEAN :
           MergeWorld(places,
                      MergeParent(path, i, MergeRef(places[2], 1)),
                      child, leaf_cached)
    /\ children_merkle_map = << >>
    /\ committed_root = NoRef
    /\ db_children_merkles = << >>
    /\ row_number = MaxRow
    /\ txn = << >>
    /\ phase = "write"
    /\ put_log = << >>
    /\ snapshot = << >>
    /\ last_op = "init"
    /\ row_limit = MaxRow
    /\ KvdbLog_new /\ UnitIdle /\ CodecIdle /\ BdmInit
    /\ IndexInit(DefaultConfig, NoCacheManager)

\* the visitor merges the root, a node with one child, into that child
MergeRoot(bad) ==
    /\ phase = "write" /\ root # NoRef
    /\ get_children_count(get_trie_node(World, root, {}).node) = 1
    /\ \E node \in {get_trie_node(World, root, {}).node} :
           \E r \in {cow_merge_path(
                         World, CowNodeRef_new(root, owned_node_set), node,
                         FromCompact(node.children_table[OnlyChild(node)]),
                         OnlyChild(node), bad)} :
               IF r.w.panic THEN Outcome(r.w, root, "merge")
               ELSE /\ Store(IF r.err THEN World ELSE r.w)
                    /\ root' = IF r.err THEN root
                               ELSE FromCompact(into_child(r.h))
                    /\ phase' = phase
                    /\ last_op' = IF r.err THEN "merge_err" ELSE "merge"
    /\ UNCHANGED << bdmVars, extVars, committedVars, put_log >>

NextMerge == \E bad \in BadLoads : MergeRoot(bad)

SpecMerge == InitMerge /\ [][NextMerge]_vars

\* the only child of the node at pos: its reference and its node
ChildRefAt(pos) ==
    FromCompact(NodeAt(pos).children_table[OnlyChild(NodeAt(pos))])

ChildAt(pos) == get_trie_node(World, ChildRefAt(pos), {}).node

\* C28: on success cow_merge_path returns an owned handle to a node whose
\* compressed path is the parent's path, then the child-index nibble, then
\* the child's former path, and whose value and children equal the
\* child's; the parent is freed and removed from the owner set if it was
\* owned and left untouched otherwise; a child that was not owned is left
\* unmodified and a dirty copy carrying the new path is returned instead.
C28_MergePath ==
    InSession =>
        \A pos \in MergePositions : \A bad \in BadLoads :
            \E r \in {MergeAt(pos, bad)} :
                (~r.err /\ ~r.w.panic) =>
                    /\ r.h.owned
                    /\ r.h.node_ref.kind = "Dirty"
                    /\ OwnedContains(r.w.own, r.h.node_ref)
                    /\ \E n \in {r.w.slab[r.h.node_ref.index]} :
                           /\ n.compressed_path =
                                  NodeAt(pos).compressed_path
                                      \o << OnlyChild(NodeAt(pos)) >>
                                      \o ChildAt(pos).compressed_path
                           /\ n.value = ChildAt(pos).value
                           /\ n.children_table = ChildAt(pos).children_table
                    /\ IF HandleAt(pos).owned
                       THEN /\ r.w.slab[NodeSlot(World,
                                                 HandleAt(pos).node_ref)]
                                   = Vacant
                            /\ ~OwnedContains(r.w.own,
                                              HandleAt(pos).node_ref)
                       ELSE /\ get_trie_node(r.w, HandleAt(pos).node_ref,
                                             {}).node = NodeAt(pos)
                            /\ InMemory(r.w, HandleAt(pos).node_ref)
                                   = InMemory(World, HandleAt(pos).node_ref)
                    /\ IF OwnedContains(owned_node_set, ChildRefAt(pos))
                       THEN r.h.node_ref = ChildRefAt(pos)
                       ELSE /\ r.h.node_ref # ChildRefAt(pos)
                            /\ slab[r.h.node_ref.index] = Vacant
                            /\ get_trie_node(r.w, ChildRefAt(pos), {}).node
                                   = ChildAt(pos)
                            /\ InMemory(r.w, ChildRefAt(pos))
                                   = InMemory(World, ChildRefAt(pos))

\* an owned parent was merged into its committed child, which has a child
\* of its own: the root is the dirty copy with the joined path, the
\* child's row is as it was
C28_Witness ==
    /\ last_op = "merge"
    /\ root.kind = "Dirty"
    /\ root.original_db_key = 1
    /\ OwnedContains(owned_node_set, root)
    /\ slab[0] = Vacant
    /\ Len(slab[root.index].compressed_path) >= 2
    /\ get_children_count(slab[root.index]) = 1
    /\ slab[root.index].children_table
           = rlp_decode(db_delta_trie[1]).children_table

\* the children-merkles of the session's root, by partial and by full
\* recomputation
PartialRootMerkles ==
    get_or_compute_children_merkles(World, HandleAt(<< >>), NodeAt(<< >>),
                                    {})

FullRootMerkles ==
    compute_children_merkles(World, HandleAt(<< >>), NodeAt(<< >>), {})

\* C29: for every owned node with Some(original_db_key) whose
\* children-merkles are found by load_children_merkles, the table returned
\* by get_or_compute_children_merkles (the loaded table with the entries of
\* dirty children recomputed and of absent children nulled) equals the
\* table compute_children_merkles returns for the same node, in every trie
\* state reachable through the CoW operations; checked for the root.
C29_PartialEqualsFull ==
    (/\ phase = "write"
     /\ root # NoRef
     /\ HandleAt(<< >>).owned
     /\ original_db_key(root) # None
     /\ get_children_count(NodeAt(<< >>)) > 0
     /\ load_children_merkles(World, original_db_key(root)).merkles.some)
    => ((~PartialRootMerkles.err /\ ~FullRootMerkles.err) =>
            PartialRootMerkles.merkles = FullRootMerkles.merkles)


(***************************************************************************)
(* A failed commit.  The commit of the delta's root is run under every     *)
(* cache manager that fails to register at most one db key; the row-number *)
(* advance fails by itself when the row number has reached row_limit.      *)
(***************************************************************************)
CacheFailures == {{}} \cup {{k} : k \in 0 .. row_limit}

WorldWith(full) == [World EXCEPT !.cache_full = full]

\* commit_dirty_recursively on the root, and the loop over the root's
\* children it starts with
CommitRootWith(full) ==
    commit_dirty_recursively(WorldWith(full), HandleAt(<< >>))

CommitChildrenWith(full) ==
    commit_dirty_recurse_into_children(
        WorldWith(full), NodeSlot(World, root), 0)

\* the owned children of the root whose Dirty ref is still in the root's
\* children table and in the owner set of world w
FailedChildren(w) ==
    {i \in ChildIdx :
        /\ NodeAt(<< >>).children_table[i] # NULL_NODE
        /\ HandleAt(<< i >>).owned
        /\ w.slab[NodeSlot(World, root)].children_table[i]
               = NodeAt(<< >>).children_table[i]
        /\ OwnedContains(w.own, HandleAt(<< i >>).node_ref)
        /\ HandleAt(<< i >>).node_ref.kind = "Dirty"}

\* the commit of the node whose handle is self failed in r and left the
\* node recoverable
Recoverable(r, self) ==
    /\ r.h = self
    /\ r.h.node_ref.kind = "Dirty"
    /\ OwnedContains(r.w.own, r.h.node_ref)
    /\ r.e \in {"row_number", "cache"}

\* C30: when commit_dirty_recursively returns an error, the node's handle
\* still carries its Dirty ref and the Dirty ref is still in the owner set;
\* when it was the commit of a child that failed, the child's Dirty ref is
\* still in its parent's table and in the owner set, and the parent returns
\* the child's error as it is, having done nothing after it.
C30_CommitFailureRecoverable ==
    (phase = "computed" /\ root # NoRef /\ HandleAt(<< >>).owned)
    => \A full \in CacheFailures :
           \E r \in {CommitRootWith(full)} :
               r.err =>
                   /\ Recoverable(r, HandleAt(<< >>))
                   /\ \E c \in {CommitChildrenWith(full)} :
                          c.err => /\ r.e = c.e
                                   /\ r.w = c.w
                                   /\ FailedChildren(r.w) # {}

\* the three failures: the row number of the root, the cache registration
\* of the root, and the commit of a child
C30_Witness ==
    /\ phase = "computed" /\ root # NoRef /\ HandleAt(<< >>).owned
    /\ \E full \in CacheFailures :
           /\ CommitRootWith(full).err
           /\ CommitChildrenWith(full).err
           /\ CommitRootWith(full).e = "cache"


(***************************************************************************)
(* The owner set and the slab.                                             *)
(***************************************************************************)
\* the slots of the Dirty refs of the owner set
OwnedDirtySlots == DOMAIN owned_node_set.dirty

\* C31: every Dirty ref of the owner set refers to an allocated slab slot
\* (the handle was not dropped while owned)
C31_OwnerSetLive ==
    ~World.panic => \A slot \in OwnedDirtySlots : World.slab[slot] # Vacant


(***************************************************************************)
(* The transaction addresses step by step, for threads that run            *)
(* insert_transaction_address_to_kv and transaction_address_by_hash at the *)
(* same time.  transaction_addresses is a RwLock: write() and              *)
(* upgradable_read() exclude each other; the write guard of the insert is  *)
(* a temporary of its statement, the upgradable guard of the lookup lives  *)
(* to the end of the function.  The columns are written without a lock.    *)
(***************************************************************************)
TxCall(op, hash, ret, since, overlap) ==
    [op |-> op, hash |-> hash, ret |-> ret, since |-> since,
     overlap |-> overlap]

\* the last completed insert for the hash
LastInsert(hash) == IF hash \in DOMAIN tx_done THEN Some(tx_done[hash])
                    ELSE NoResult

\* some other thread is inside an insert for the hash
InsertInProgress(t, hash) ==
    \E u \in Threads \ {t} :
        threads[u].pc = "tx_insert_db" /\ threads[u].hash = hash

TxConcFrame ==
    UNCHANGED << trieVars, block_receipts, col_block_receipts, blocks,
                 col_blocks, invalid_block_set, persisted, invalidated,
                 receipts_lock, block_headers, compact_blocks,
                 transaction_pubkey_cache, block_receipts_root, config,
                 kvdbVars, codec, row_limit, owned_call, lightVars,
                 bucketVars, lockVars, requestVars >>

\* insert_transaction_address_to_kv: the statement under write(); a lookup
\* of the same hash that has begun now overlaps an insert
TxInsertMemory(t, hash, tx_address) ==
    /\ threads[t] = Idle
    /\ config.record_tx_address
    /\ tx_lock = {}
    /\ \E d \in {IF hash \in DOMAIN transaction_addresses
                 THEN note_used([Self EXCEPT !.transaction_addresses[hash] =
                                                 tx_address],
                                CacheId("TransactionAddress", hash))
                 ELSE Self} :
           /\ transaction_addresses' = d.transaction_addresses
           /\ cache_man' = d.cache_man
    /\ threads' =
           [u \in Threads |->
               IF u = t
               THEN [pc |-> "tx_insert_db", hash |-> hash,
                     tx_address |-> tx_address]
               ELSE IF threads[u].pc \in {"tx_lookup_db", "tx_lookup_cache"}
                       /\ threads[u].hash = hash
               THEN [threads[u] EXCEPT !.overlap = TRUE]
               ELSE threads[u]]
    /\ bdm_call' = TxCall("write", hash, NoResult, NoResult, FALSE)
    /\ UNCHANGED << col_tx_address, tx_lock, tx_done >>
    /\ TxConcFrame

\* the put of the row and the write of the db transaction
TxInsertDb(t) ==
    /\ threads[t].pc = "tx_insert_db"
    /\ col_tx_address' = MapPut(col_tx_address, threads[t].hash,
                                rlp_tx_address(threads[t].tx_address))
    /\ tx_done' = MapPut(tx_done, threads[t].hash, threads[t].tx_address)
    /\ threads' = [threads EXCEPT ![t] = Idle]
    /\ bdm_call' = TxCall("insert_transaction_address_to_kv",
                          threads[t].hash, NoResult, NoResult, FALSE)
    /\ UNCHANGED << transaction_addresses, cache_man, tx_lock >>
    /\ TxConcFrame

\* insert_transaction_address_to_kv when record_tx_address is off
TxInsertOff(t, hash) ==
    /\ threads[t] = Idle
    /\ ~config.record_tx_address
    /\ bdm_call' = TxCall("insert_transaction_address_to_kv", hash,
                          NoResult, NoResult, TRUE)
    /\ UNCHANGED << threads, transaction_addresses, cache_man,
                    col_tx_address, tx_lock, tx_done >>
    /\ TxConcFrame

\* transaction_address_by_hash: upgradable_read() and the get of the map
TxLookupMemory(t, hash, update_cache) ==
    /\ threads[t] = Idle
    /\ tx_lock = {}
    /\ IF hash \in DOMAIN transaction_addresses
       THEN /\ bdm_call' = TxCall("transaction_address_by_hash", hash,
                                  Some(transaction_addresses[hash]),
                                  LastInsert(hash),
                                  InsertInProgress(t, hash))
            /\ UNCHANGED << threads, tx_lock >>
       ELSE /\ threads' = [threads EXCEPT ![t] =
                   [pc |-> "tx_lookup_db", hash |-> hash,
                    update_cache |-> update_cache,
                    since |-> LastInsert(hash),
                    overlap |-> InsertInProgress(t, hash)]]
            /\ tx_lock' = {t}
            /\ bdm_call' = TxCall("upgradable_read", hash, NoResult,
                                  NoResult, FALSE)
    /\ UNCHANGED << transaction_addresses, cache_man, col_tx_address,
                    tx_done >>
    /\ TxConcFrame

\* transaction_address_by_hash_from_db; without an address to cache the
\* function returns and the guard is dropped
TxLookupDb(t) ==
    /\ threads[t].pc = "tx_lookup_db"
    /\ \E address \in {transaction_address_by_hash_from_db(
                           Self, threads[t].hash)} :
           IF address.some /\ threads[t].update_cache
           THEN /\ threads' = [threads EXCEPT ![t] =
                       [pc |-> "tx_lookup_cache", hash |-> threads[t].hash,
                        address |-> address.v, since |-> threads[t].since,
                        overlap |-> threads[t].overlap]]
                /\ bdm_call' = TxCall("from_db", threads[t].hash, NoResult,
                                      NoResult, FALSE)
                /\ UNCHANGED tx_lock
           ELSE /\ threads' = [threads EXCEPT ![t] = Idle]
                /\ tx_lock' = tx_lock \ {t}
                /\ bdm_call' = TxCall("transaction_address_by_hash",
                                      threads[t].hash, address,
                                      threads[t].since, threads[t].overlap)
    /\ UNCHANGED << transaction_addresses, cache_man, col_tx_address,
                    tx_done >>
    /\ TxConcFrame

\* update_cache: the guard is upgraded, the address read from the db is
\* inserted and noted
TxLookupCache(t) ==
    /\ threads[t].pc = "tx_lookup_cache"
    /\ \E d \in {note_used([Self EXCEPT !.transaction_addresses =
                                MapPut(@, threads[t].hash,
                                       threads[t].address)],
                           CacheId("TransactionAddress", threads[t].hash))} :
           /\ transaction_addresses' = d.transaction_addresses
           /\ cache_man' = d.cache_man
    /\ threads' = [threads EXCEPT ![t] = Idle]
    /\ tx_lock' = tx_lock \ {t}
    /\ bdm_call' = TxCall("transaction_address_by_hash", threads[t].hash,
                          Some(threads[t].address), threads[t].since,
                          threads[t].overlap)
    /\ UNCHANGED << col_tx_address, tx_done >>
    /\ TxConcFrame

NextTxConc ==
    \/ \E t \in Threads, h \in TxHashes : \E a \in TxAddresses(h) :
           TxInsertMemory(t, h, a)
    \/ \E t \in Threads : TxInsertDb(t)
    \/ \E t \in Threads, h \in TxHashes : TxInsertOff(t, h)
    \/ \E t \in Threads, h \in TxHashes, u \in BOOLEAN :
           TxLookupMemory(t, h, u)
    \/ \E t \in Threads : TxLookupDb(t)
    \/ \E t \in Threads : TxLookupCache(t)

SpecTxConc == InitTx /\ [][NextTxConc]_vars

\* every call has returned
TxQuiet == \A t \in Threads : threads[t] = Idle

\* C32: once every call has returned, each entry of the in-memory
\* transaction_addresses map equals the address stored under its hash in
\* the TX_ADDRESS column; and a lookup that no insert of its hash overlapped
\* returns the address of the last insert completed before it began.
C32_TxAddressCoherence ==
    /\ TxQuiet =>
           \A h \in DOMAIN transaction_addresses :
               transaction_address_by_hash_from_db(Self, h)
                   = Some(transaction_addresses[h])
    /\ (bdm_call.op = "transaction_address_by_hash" /\ ~bdm_call.overlap)
           => bdm_call.ret = bdm_call.since


(***************************************************************************)
(* The cache maps and the cache manager.                                   *)
(***************************************************************************)
\* the ids of the entries of the six cache maps
CachedIds ==
    {CacheId("BlockHeader", h) : h \in block_headers}
    \cup {CacheId("Block", h) : h \in blocks}
    \cup {CacheId("CompactBlock", h) : h \in compact_blocks}
    \cup {CacheId("BlockReceipts", h) : h \in DOMAIN block_receipts}
    \cup {CacheId("TransactionAddress", h) :
              h \in DOMAIN transaction_addresses}
    \cup {CacheId("TransactionPubkey", h) : h \in transaction_pubkey_cache}

\* the ids the cache manager can name as victims
RegisteredIds == {cache_man[i] : i \in DOMAIN cache_man}

\* C33: every key of the six cache maps is registered with the cache
\* manager
C33_CachedEvictable == CachedIds \subseteq RegisteredIds


(***************************************************************************)
(* A removed block.                                                        *)
(***************************************************************************)
\* BlockDataManager::block_from_db: the header row and the body row
block_from_db(d, block_hash) ==
    IF block_header_from_db(d, block_hash).some
       /\ block_body_from_db(d, block_hash).some
    THEN Some(block_hash)
    ELSE NoResult

\* C34: in the state remove_block_from_kv(h) returns in, block_by_hash(h, _)
\* and block_from_db(h) return None
C34_RemovedBlockGone ==
    bdm_call.op = "remove_block_from_kv"
    => /\ \A update_cache \in BOOLEAN :
              ~block_by_hash(Self, bdm_call.hash, update_cache).ret.some
       /\ ~block_from_db(Self, bdm_call.hash).some


(***************************************************************************)
(* A persisted block.                                                      *)
(***************************************************************************)
\* the blocks whose header row and body row are in COL_BLOCKS: those
\* inserted with persistent = true and not removed since
PersistedBlocks ==
    {h \in Hashes : /\ << h >> \in DOMAIN col_blocks
                    /\ block_body_key(h) \in DOMAIN col_blocks}

\* C35: block_by_hash returns every block that was inserted persistently
\* and not removed, whatever the caches hold
C35_PersistedRetrievable ==
    \A h \in PersistedBlocks, update_cache \in BOOLEAN :
        block_by_hash(Self, h, update_cache).ret.some


(***************************************************************************)
(* The locks of the data manager.  A call is the sequence of its lock      *)
(* steps, in the order of the code: a guard bound by `let` is released at  *)
(* the end of its block, a temporary guard at the end of its statement.    *)
(* parking_lot's RwLock: read() waits for no writer, upgradable_read() for *)
(* no writer and no upgradable reader, write() for no holder at all, and   *)
(* upgrade() for the readers to leave; a Mutex is held by one thread.      *)
(***************************************************************************)
Acquire(lock, mode) == << "acquire", lock, mode >>
Upgrade(lock) == << "upgrade", lock, "write" >>
Release(lock) == << "release", lock, "none" >>

\* a temporary guard: taken and released within one statement
Temporary(lock, mode) == << Acquire(lock, mode), Release(lock) >>

\* self.cache_man.lock().note_used(..) as a statement
NoteUsed == Temporary("cache_man", "lock")

\* cache_size: a read of each cache map in turn
cache_size_locks ==
    Temporary("block_headers", "read") \o Temporary("blocks", "read")
    \o Temporary("compact_blocks", "read")
    \o Temporary("block_receipts", "read")
    \o Temporary("transaction_addresses", "read")
    \o Temporary("transaction_pubkey_cache", "read")

\* a block_cache_gc that takes the cache manager before the cache maps
block_cache_gc_manager_first ==
    cache_size_locks
    \o << Acquire("cache_man", "lock"),
          Acquire("block_headers", "write"), Acquire("blocks", "write"),
          Acquire("compact_blocks", "write"),
          Acquire("block_receipts", "write"),
          Acquire("transaction_pubkey_cache", "write"),
          Acquire("transaction_addresses", "write"),
          Release("transaction_addresses"),
          Release("transaction_pubkey_cache"), Release("block_receipts"),
          Release("compact_blocks"), Release("blocks"),
          Release("block_headers"), Release("cache_man") >>

\* block_cache_gc: the six write guards and the cache manager are held to
\* the end of the function and dropped in the reverse order
block_cache_gc_locks ==
    cache_size_locks
    \o << Acquire("block_headers", "write"), Acquire("blocks", "write"),
          Acquire("compact_blocks", "write"),
          Acquire("block_receipts", "write"),
          Acquire("transaction_pubkey_cache", "write"),
          Acquire("transaction_addresses", "write"),
          Acquire("cache_man", "lock"),
          Release("cache_man"), Release("transaction_addresses"),
          Release("transaction_pubkey_cache"), Release("block_receipts"),
          Release("compact_blocks"), Release("blocks"),
          Release("block_headers") >>

\* block_header_by_hash: found in the map (or nothing to insert), or read
\* from the db and inserted under the upgraded guard
block_header_by_hash_locks ==
    {<< Acquire("block_headers", "upgradable_read"),
        Release("block_headers") >>,
     << Acquire("block_headers", "upgradable_read"),
        Upgrade("block_headers"), Release("block_headers") >> \o NoteUsed}

\* block_by_hash: the block is in the map; or the header is looked up and
\* the call returns or, with update_cache, inserts under blocks.write()
\* with the cache manager taken inside
block_by_hash_locks ==
    {Temporary("blocks", "read")}
    \cup {Temporary("blocks", "read") \o header \o tail :
              header \in block_header_by_hash_locks,
              tail \in {<< >>,
                        << Acquire("blocks", "write"),
                           Acquire("cache_man", "lock"),
                           Release("cache_man"), Release("blocks") >>}}

\* compact_block_by_hash: the read guard lives through the closure
compact_block_by_hash_locks ==
    {Temporary("compact_blocks", "read"),
     << Acquire("compact_blocks", "read"), Acquire("cache_man", "lock"),
        Release("cache_man"), Release("compact_blocks") >>}

transaction_address_by_hash_locks ==
    {<< Acquire("transaction_addresses", "upgradable_read"),
        Release("transaction_addresses") >>,
     << Acquire("transaction_addresses", "upgradable_read"),
        Upgrade("transaction_addresses"),
        Release("transaction_addresses") >> \o NoteUsed}

cache_transaction_locks ==
    {<< Acquire("transaction_pubkey_cache", "write"),
        Acquire("cache_man", "lock"), Release("cache_man"),
        Release("transaction_pubkey_cache") >>}

insert_block_to_kv_locks == {Temporary("blocks", "write") \o NoteUsed}

insert_block_header_locks ==
    {NoteUsed \o Temporary("block_headers", "write"),
     Temporary("block_headers", "write")}

insert_compact_block_locks ==
    {Temporary("compact_blocks", "write") \o NoteUsed}

insert_block_results_to_kv_locks ==
    {<< Acquire("block_receipts", "write"), Acquire("cache_man", "lock"),
        Release("cache_man"), Release("block_receipts") >>}

\* insert_transaction_address_to_kv: and_modify runs its closure, and
\* with it the cache manager, under the write guard
insert_transaction_address_to_kv_locks ==
    {Temporary("transaction_addresses", "write"),
     << Acquire("transaction_addresses", "write"),
        Acquire("cache_man", "lock"), Release("cache_man"),
        Release("transaction_addresses") >>}

verified_invalid_locks ==
    {<< Acquire("invalid_block_set", "upgradable_read"),
        Release("invalid_block_set") >>,
     << Acquire("invalid_block_set", "upgradable_read"),
        Upgrade("invalid_block_set"), Release("invalid_block_set") >>}

LockCall(op, programs) == {[op |-> op, todo |-> p] : p \in programs}

\* the calls of the data manager and the ways each can run
LockCalls ==
    LockCall("block_cache_gc", {block_cache_gc_locks})
    \cup LockCall("block_by_hash", block_by_hash_locks)
    \cup LockCall("block_header_by_hash", block_header_by_hash_locks)
    \cup LockCall("compact_block_by_hash", compact_block_by_hash_locks)
    \cup LockCall("transaction_address_by_hash",
                  transaction_address_by_hash_locks)
    \cup LockCall("cache_transaction", cache_transaction_locks)
    \cup LockCall("insert_block_to_kv", insert_block_to_kv_locks)
    \cup LockCall("insert_block_header", insert_block_header_locks)
    \cup LockCall("insert_compact_block", insert_compact_block_locks)
    \cup LockCall("insert_block_results_to_kv",
                  insert_block_results_to_kv_locks)
    \cup LockCall("insert_transaction_address_to_kv",
                  insert_transaction_address_to_kv_locks)
    \cup LockCall("verified_invalid", verified_invalid_locks)

NoCall == [op |-> "none", todo |-> << >>]

\* the lock step can be taken now
Granted(t, step) ==
    LET l == locks[step[2]]
    IN  CASE step[1] = "release" -> TRUE
          [] step[1] = "upgrade" -> l.readers = {}
          [] step[3] = "read" -> l.writer = {}
          [] step[3] = "upgradable_read" ->
                 l.writer = {} /\ l.upgradable = {}
          [] OTHER ->
                 l.writer = {} /\ l.upgradable = {} /\ l.readers = {}

\* the lock after the step
Taken(t, step) ==
    LET l == locks[step[2]]
    IN  CASE step[1] = "release" ->
                 [writer |-> l.writer \ {t},
                  upgradable |-> l.upgradable \ {t},
                  readers |-> l.readers \ {t}]
          [] step[1] = "upgrade" ->
                 [l EXCEPT !.writer = {t}, !.upgradable = @ \ {t}]
          [] step[3] = "read" -> [l EXCEPT !.readers = @ \cup {t}]
          [] step[3] = "upgradable_read" -> [l EXCEPT !.upgradable = {t}]
          [] OTHER -> [l EXCEPT !.writer = {t}]

LockFrame ==
    UNCHANGED << trieVars, bdmVars, indexVars, kvdbVars, codec, row_limit,
                 owned_call, lightVars, bucketVars, txConcVars,
                 requestVars >>

\* a thread enters a call
LockCallBegin(t, call) ==
    /\ lock_threads[t] = NoCall
    /\ lock_threads' = [lock_threads EXCEPT ![t] = call]
    /\ UNCHANGED locks
    /\ LockFrame

\* a thread takes the next lock step of its call; after the last one the
\* call returns
LockStep(t) ==
    /\ lock_threads[t].todo # << >>
    /\ \E step \in {Head(lock_threads[t].todo)} :
           /\ Granted(t, step)
           /\ locks' = [locks EXCEPT ![step[2]] = Taken(t, step)]
    /\ lock_threads' = [lock_threads EXCEPT ![t] =
           IF Len(@.todo) = 1 THEN NoCall
           ELSE [@ EXCEPT !.todo = Tail(@)]]
    /\ LockFrame

NextLocks ==
    \/ \E t \in LockThreads, call \in LockCalls : LockCallBegin(t, call)
    \/ \E t \in LockThreads : LockStep(t)

SpecLocks == Init /\ [][NextLocks]_vars

\* the threads inside a call, and those of them whose next step is granted
InCall == {t \in LockThreads : lock_threads[t] # NoCall}

Running == {t \in InCall : Granted(t, Head(lock_threads[t].todo))}

\* the locks thread t holds
HeldBy(t) ==
    {l \in LockNames :
        t \in locks[l].writer \cup locks[l].upgradable \cup locks[l].readers}

get_with_number_key(key) ==
    IF key + 1 \in DOMAIN engine THEN Some(engine[key + 1]) ELSE NoResult

\* C37: the row get_with_number_key returns for a key is an entry that was
\* passed to put_with_number_key under that key
C37_RowKeyIsRowId ==
    \A key \in 0 .. MaxLogRows :
        get_with_number_key(key).some
            => get_with_number_key(key).v.key = key


(***************************************************************************)
(* The request handler of the synchronisation layer.  A request is a       *)
(* record with the identity `uid` of the boxed request, the duration its   *)
(* Request::timeout gives and the request id it was sent under; a          *)
(* TimedSyncRequests carries the identity of the request it was made for,  *)
(* which stands for the identity of the Arc, and its removed flag is the   *)
(* membership of that identity in `removed`.  The timeout statistics of a  *)
(* container decide only whether the peer is disconnected, which the       *)
(* network layer answers with remove_peer.                                 *)
(***************************************************************************)
MaxPeers == 1
PeerIds == 1 .. MaxPeers

\* the requests handed to send_request
MaxRequests == 3

\* the values of the clock
MaxTime == 3

\* the values of Request::timeout
Timeouts == {1, 2}

\* ProtocolConfiguration::max_inflight_request_count
max_inflight_request_count == 1

NoMessage == [uid |-> 0, timeout |-> 0, request_id |-> None]

RequestContainer_new(peer_id) ==
    [peer_id |-> peer_id, inflight_requests |-> << >>,
     next_request_id |-> 0,
     max_inflight_request_count |-> max_inflight_request_count,
     pending_requests |-> << >>]

\* TimedSyncRequests::from_request at the instant t
from_request(peer_id, request_id, msg, t) ==
    [uid |-> msg.uid, peer_id |-> peer_id,
     timeout_time |-> t + msg.timeout, request_id |-> request_id]

get_next_request_id(c) ==
    IF Cardinality(DOMAIN c.inflight_requests) < c.max_inflight_request_count
    THEN [some |-> TRUE, v |-> c.next_request_id,
          c |-> [c EXCEPT !.next_request_id = @ + 1]]
    ELSE [some |-> FALSE, v |-> None, c |-> c]

append_inflight_request(c, request_id, message, timed_req) ==
    [c EXCEPT !.inflight_requests =
                  MapPut(@, request_id,
                         [message |-> message, timed_req |-> timed_req])]

append_pending_request(c, msg) ==
    [c EXCEPT !.pending_requests = Append(@, msg)]

\* the loop of RequestContainer::match_request that sends the pending
\* requests while an in-flight slot is free; send_message fails for the
\* requests in io
RECURSIVE send_pending(_, _, _, _)
send_pending(c, queue, io, t) ==
    IF c.pending_requests = << >> THEN [err |-> FALSE, c |-> c, q |-> queue]
    ELSE
      LET next == get_next_request_id(c) IN
      IF ~next.some THEN [err |-> FALSE, c |-> c, q |-> queue]
      ELSE
        LET pending_msg ==
                [Head(c.pending_requests) EXCEPT !.request_id = next.v]
            popped == [next.c EXCEPT !.pending_requests = Tail(@)]
            timed_req == from_request(c.peer_id, next.v, pending_msg, t)
        IN IF pending_msg.uid \in io
           THEN [err |-> TRUE,
                 c |-> append_pending_request(popped, pending_msg),
                 q |-> queue]
           ELSE send_pending(
                    append_inflight_request(popped, next.v, pending_msg,
                                            timed_req),
                    queue \cup {timed_req}, io, t)

\* RequestContainer::match_request
RequestContainer_match_request(c, request_id, queue, rem, io, t) ==
    IF request_id \notin DOMAIN c.inflight_requests
    THEN [ret |-> "RequestNotFound", message |-> NoMessage, c |-> c,
          q |-> queue, rem |-> rem]
    ELSE
      LET removed_req == c.inflight_requests[request_id]
          sent == send_pending(
                      [c EXCEPT !.inflight_requests = MapDel(@, request_id)],
                      queue, io, t)
      IN [ret |-> IF sent.err THEN "SendError" ELSE "Ok",
          message |-> removed_req.message, c |-> sent.c, q |-> sent.q,
          rem |-> rem \cup {removed_req.timed_req.uid}]

\* the state of the handler
Handler ==
    [peers |-> peers, requests_queue |-> requests_queue,
     removed |-> removed]

\* RequestHandler::match_request, under the locks of peers and of the
\* queue
match_request(h, peer_id, request_id, io, t) ==
    IF peer_id \notin DOMAIN h.peers
    THEN [ret |-> "UnknownPeer", message |-> NoMessage, h |-> h]
    ELSE
      LET r == RequestContainer_match_request(
                   h.peers[peer_id], request_id, h.requests_queue,
                   h.removed, io, t)
      IN [ret |-> r.ret, message |-> r.message,
          h |-> [peers |-> MapPut(h.peers, peer_id, r.c),
                 requests_queue |-> r.q, removed |-> r.rem]]

\* RequestContainer::get_unfinished_requests
get_unfinished_requests(c) ==
    [inflight |-> {c.inflight_requests[i] : i \in DOMAIN c.inflight_requests},
     pending |-> c.pending_requests]

\* the entry BinaryHeap::pop returns: one with the least timeout_time, of
\* several the one made first
Earliest(queue) ==
    CHOOSE e \in queue :
        \A o \in queue :
            \/ e.timeout_time < o.timeout_time
            \/ e.timeout_time = o.timeout_time /\ e.uid <= o.uid

\* RequestHandler::get_timeout_sync_requests at the instant t
RECURSIVE get_timeout_sync_requests(_, _, _)
get_timeout_sync_requests(queue, rem, t) ==
    IF queue = {} THEN [timeout_requests |-> << >>, q |-> queue]
    ELSE
      LET sync_req == Earliest(queue)
          rest == get_timeout_sync_requests(queue \ {sync_req}, rem, t)
      IN IF sync_req.uid \in rem THEN rest
         ELSE IF sync_req.timeout_time >= t
         THEN [timeout_requests |-> << >>, q |-> queue]
         ELSE [timeout_requests |-> << sync_req >> \o rest.timeout_requests,
               q |-> rest.q]

\* the requests a container holds, by identity
InflightUids(c) ==
    {c.inflight_requests[i].message.uid : i \in DOMAIN c.inflight_requests}

PendingUids(c) ==
    {c.pending_requests[i].uid : i \in DOMAIN c.pending_requests}

TrackedUids(ps) ==
    UNION {InflightUids(ps[p]) \cup PendingUids(ps[p]) : p \in DOMAIN ps}

\* ghost: the request id and the timeout_time of the requests in flight
Noted(rs, ps) ==
    [u \in DOMAIN rs |->
        IF \E p \in DOMAIN ps : u \in InflightUids(ps[p])
        THEN LET p == CHOOSE p \in DOMAIN ps : u \in InflightUids(ps[p])
                 i == CHOOSE i \in DOMAIN ps[p].inflight_requests :
                          ps[p].inflight_requests[i].message.uid = u
             IN [rs[u] EXCEPT
                    !.request_id = i,
                    !.timeout_time =
                        ps[p].inflight_requests[i].timed_req.timeout_time]
        ELSE rs[u]]

\* ghost: the requests in got were handed back to a caller
HandedBack(rs, got, timed_out) ==
    [u \in DOMAIN rs |->
        IF u \in got
        THEN [rs[u] EXCEPT !.handed = @ + 1,
                           !.timed_out = @ \/ timed_out]
        ELSE rs[u]]

RequestCall(op, peer_id, request_id, ret, got, unchanged, late) ==
    [op |-> op, peer_id |-> peer_id, request_id |-> request_id,
     ret |-> ret, got |-> got, unchanged |-> unchanged, late |-> late]

RequestFrame ==
    UNCHANGED << trieVars, bdmVars, indexVars, kvdbVars, codec, row_limit,
                 owned_call, lightVars, bucketVars, txConcVars, lockVars >>

SetHandler(h) ==
    /\ peers' = h.peers
    /\ requests_queue' = h.requests_queue
    /\ removed' = h.removed

\* RequestHandler::add_peer
AddPeer(peer_id) ==
    /\ SetHandler([Handler EXCEPT
                      !.peers = MapPut(@, peer_id,
                                       RequestContainer_new(peer_id))])
    /\ request_call' = RequestCall("add_peer", peer_id, None, "Ok", {},
                                   FALSE, FALSE)
    /\ UNCHANGED << now, timeout_call, requests >>
    /\ RequestFrame

\* RequestHandler::send_request of a new request; send_message succeeds
\* iff ok
SendRequest(peer, timeout, ok) ==
    /\ Len(requests) < MaxRequests
    /\ LET uid == Len(requests) + 1
           request == [uid |-> uid, timeout |-> timeout,
                       request_id |-> None]
           given(accepted) ==
               Append(requests,
                      [peer |-> peer, accepted |-> accepted, handed |-> 0,
                       timed_out |-> FALSE, request_id |-> None,
                       timeout_time |-> None])
           call(ret, unchanged) ==
               RequestCall("send_request", peer, None, ret,
                           IF ret = "Err" THEN {uid} ELSE {}, unchanged,
                           FALSE)
       IN IF peer = None \/ peer \notin DOMAIN peers
          THEN /\ UNCHANGED << peers, requests_queue, removed >>
               /\ requests' = given(FALSE)
               /\ request_call' = call("Err", TRUE)
          ELSE
            LET next == get_next_request_id(peers[peer]) IN
            IF ~next.some
            THEN /\ peers' = [peers EXCEPT
                                 ![peer] = append_pending_request(@, request)]
                 /\ UNCHANGED << requests_queue, removed >>
                 /\ requests' = given(TRUE)
                 /\ request_call' = call("Ok", FALSE)
            ELSE IF ~ok
            THEN /\ peers' = [peers EXCEPT ![peer] = next.c]
                 /\ UNCHANGED << requests_queue, removed >>
                 /\ requests' = given(FALSE)
                 /\ request_call' = call("Err", FALSE)
            ELSE
              LET msg == [request EXCEPT !.request_id = next.v]
                  timed_req == from_request(peer, next.v, msg, now)
              IN /\ peers' = [peers EXCEPT
                                 ![peer] = append_inflight_request(
                                               next.c, next.v, msg,
                                               timed_req)]
                 /\ requests_queue' = requests_queue \cup {timed_req}
                 /\ UNCHANGED removed
                 /\ requests' = Noted(given(TRUE), peers')
                 /\ request_call' = call("Ok", FALSE)
    /\ UNCHANGED << now, timeout_call >>
    /\ RequestFrame

\* the response is for a request that get_timeout_requests returned
Late(peer_id, request_id) ==
    \E u \in DOMAIN requests :
        /\ requests[u].timed_out
        /\ requests[u].peer = peer_id
        /\ requests[u].request_id = request_id

\* RequestHandler::match_request for a response of the peer
MatchRequest(peer_id, request_id, io) ==
    /\ \E r \in {match_request(Handler, peer_id, request_id, io, now)} :
           /\ SetHandler(r.h)
           /\ requests' =
                  Noted(HandedBack(requests,
                                   IF r.ret = "Ok" THEN {r.message.uid}
                                   ELSE {}, FALSE),
                        r.h.peers)
           /\ request_call' =
                  RequestCall("match_request", peer_id, request_id, r.ret,
                              IF r.ret = "Ok" THEN {r.message.uid} ELSE {},
                              r.h = Handler, Late(peer_id, request_id))
    /\ UNCHANGED << now, timeout_call >>
    /\ RequestFrame

NoTimeoutCall ==
    [pc |-> "idle", todo |-> << >>, timeout_requests |-> << >>]

\* RequestHandler::get_timeout_requests up to the return of
\* get_timeout_sync_requests, which releases the lock of the queue; with
\* nothing timed out the call returns
GetTimeoutSyncRequests ==
    /\ timeout_call.pc = "idle"
    /\ \E r \in {get_timeout_sync_requests(requests_queue, removed, now)} :
           /\ requests_queue' = r.q
           /\ timeout_call' =
                  IF r.timeout_requests = << >> THEN NoTimeoutCall
                  ELSE [pc |-> "match", todo |-> r.timeout_requests,
                        timeout_requests |-> << >>]
           /\ request_call' =
                  RequestCall("get_timeout_sync_requests", None, None, "Ok",
                              {}, r.q = requests_queue, FALSE)
    /\ UNCHANGED << peers, removed, now, requests >>
    /\ RequestFrame

\* one round of the loop of get_timeout_requests: match_request for the
\* next entry; after the last entry the call returns what it collected
GetTimeoutMatch(io) ==
    /\ timeout_call.pc = "match"
    /\ LET sync_req == Head(timeout_call.todo) IN
       \E r \in {match_request(Handler, sync_req.peer_id,
                               sync_req.request_id, io, now)} :
           /\ SetHandler(r.h)
           /\ requests' =
                  Noted(HandedBack(requests,
                                   IF r.ret = "Ok" THEN {r.message.uid}
                                   ELSE {}, TRUE),
                        r.h.peers)
           /\ timeout_call' =
                  IF Tail(timeout_call.todo) = << >> THEN NoTimeoutCall
                  ELSE [timeout_call EXCEPT
                           !.todo = Tail(@),
                           !.timeout_requests =
                               IF r.ret = "Ok" THEN Append(@, r.message)
                               ELSE @]
           /\ request_call' =
                  RequestCall("get_timeout_requests", sync_req.peer_id,
                              sync_req.request_id, r.ret,
                              IF r.ret = "UnknownPeer"
                                 \/ r.ret = "RequestNotFound"
                              THEN {} ELSE {r.message.uid},
                              r.h = Handler, FALSE)
    /\ UNCHANGED now
    /\ RequestFrame

\* RequestHandler::remove_peer
RemovePeer(peer_id) ==
    /\ IF peer_id \in DOMAIN peers
       THEN LET u == get_unfinished_requests(peers[peer_id])
                got == InflightUids(peers[peer_id])
                           \cup PendingUids(peers[peer_id])
            IN /\ peers' = MapDel(peers, peer_id)
               /\ removed' = removed \cup {r.timed_req.uid : r \in u.inflight}
               /\ requests' = HandedBack(requests, got, FALSE)
               /\ request_call' =
                      RequestCall("remove_peer", peer_id, None, "Some", got,
                                  FALSE, FALSE)
       ELSE /\ UNCHANGED << peers, removed, requests >>
            /\ request_call' =
                   RequestCall("remove_peer", peer_id, None, "None", {},
                               TRUE, FALSE)
    /\ UNCHANGED << requests_queue, now, timeout_call >>
    /\ RequestFrame

\* the clock advances
Tick ==
    /\ now < MaxTime
    /\ now' = now + 1
    /\ request_call' = RequestCall("tick", None, None, "Ok", {}, TRUE, FALSE)
    /\ UNCHANGED << peers, requests_queue, removed, timeout_call, requests >>
    /\ RequestFrame

RequestIds == 0 .. MaxRequests - 1

\* the requests send_message may fail for: the pending ones
SendFailures ==
    SUBSET UNION {PendingUids(peers[p]) : p \in DOMAIN peers}

NextRequests ==
    \/ \E peer_id \in PeerIds : AddPeer(peer_id)
    \/ \E peer \in PeerIds \cup {None}, timeout \in Timeouts,
          ok \in BOOLEAN :
           SendRequest(peer, timeout, ok)
    \/ \E peer_id \in PeerIds, request_id \in RequestIds,
          io \in SendFailures :
           MatchRequest(peer_id, request_id, io)
    \/ GetTimeoutSyncRequests
    \/ \E io \in SendFailures : GetTimeoutMatch(io)
    \/ \E peer_id \in PeerIds : RemovePeer(peer_id)
    \/ Tick

SpecRequests == Init /\ [][NextRequests]_vars

\* an accepted request is in flight or pending at a peer
Tracked(u) == u \in TrackedUids(peers)

\* C38: every request that send_request accepted is in the in-flight map or
\* in the pending queue of its peer until it is handed back to a caller,
\* and it is handed back exactly once: a request no longer tracked was
\* returned once by match_request, get_timeout_requests or remove_peer, and
\* a tracked one was not returned
C38_NoRequestLost ==
    \A u \in DOMAIN requests :
        requests[u].accepted
            => requests[u].handed = (IF Tracked(u) THEN 0 ELSE 1)

\* C39: a response and a timeout never both obtain a request: no request
\* is handed back more than once, by match_request, get_timeout_requests
\* or remove_peer; and match_request for the peer and request id of a
\* request that get_timeout_requests already returned gives
\* RequestNotFound or UnknownPeer and leaves the peers and the queue as
\* they were
C39_ResponseTimeoutExclusive ==
    /\ \A u \in DOMAIN requests : requests[u].handed <= 1
    /\ request_call.op = "match_request" /\ request_call.late
           => /\ request_call.ret \in {"RequestNotFound", "UnknownPeer"}
              /\ request_call.unchanged

\* C40: a request that get_timeout_requests takes out of the in-flight map,
\* returned or not, is one whose own timeout_time has passed
C40_TimeoutOwnRequest ==
    request_call.op = "get_timeout_requests"
        => \A u \in request_call.got : requests[u].timeout_time < now

=============================================================================
